---- MODULE Spec2Model ----
(***************************************************************************)
(* State-machine model of the homebridge Eight Sleep thermostat plugin:    *)
(*   - TwoWayTempMapper        (level <-> temperature tables)              *)
(*   - AccessoryClientAdapter  (polling cache of the user settings)        *)
(*   - PlatformClientAdapter   (polling cache of the device settings)      *)
(*   - EightSleepConnection    (session life cycle, disk cache)            *)
(*   - EightSleepThermostatAccessory (publish loop, operating state)       *)
(* Each part has its own specification (SpecMapper, SpecPolling,           *)
(* SpecSession, ...); the variables of the other parts stay at their       *)
(* initial values in it.                                                   *)
(***************************************************************************)
EXTENDS Integers, Sequences, FiniteSets, TLC

(***************************************************************************)
(* JavaScript values: a property that is absent reads as `undefined`.      *)
(* An optional value is the empty sequence (undefined / null) or <<v>>.    *)
(***************************************************************************)
None == <<>>
Some(v) == <<v>>
IsSome(o) == o # <<>>
Val(o) == o[1]

\* m[k] of a JS Record: undefined when the key was never written
Lookup(m, k) == IF k \in DOMAIN m THEN Some(m[k]) ELSE None

\* m[k] = v of a JS Record
Store(m, k, v) == [x \in DOMAIN m \cup {k} |-> IF x = k THEN v ELSE m[x]]

\* JS truthiness of an optional number: undefined and 0 are falsy
Truthy(o) == IsSome(o) /\ Val(o) # 0

\* Math.round(n / d) for d > 0: the nearest integer, halves towards +infinity
RoundDiv(n, d) == (2 * n + d) \div (2 * d)

(***************************************************************************)
(*                          TwoWayTempMapper                               *)
(***************************************************************************)
VARIABLES
  lvl,            \* loop variable of generateMaps
  lvlsToTempMap,  \* level -> degrees F
  tempsToLvlMap,  \* degrees F -> level
  celsiusToF,     \* degrees C (in hundredths) -> degrees F
  fahrenheitToC,  \* degrees F -> degrees C (in hundredths)
  asked,          \* the last conversion asked of the mapper: [op, arg], or None
  answer          \* its result (optional)

mapperVars == <<lvl, lvlsToTempMap, tempsToLvlMap, celsiusToF, fahrenheitToC,
                asked, answer>>

\* the AccessoryClientAdapter, the requests it has in flight and the server
VARIABLES
  currentUserSettings, \* the held promise: Pending(slot) or Resolved(optional settings)
  sinceActive,         \* Date.now() - lastActive, in steps, saturated at IdleCap
  refreshInterval,     \* None (null) or Some(steps until the next tick)
  timersLive,          \* the setInterval timers of the adapter that are live
  reqs,                \* the requests in flight, by slot
  srv,                 \* the user settings as the server holds them
  lastGood,            \* observer: the last settings a request brought into the cache
  lastWrite            \* observer: the last updateUserTargetLevel that completed:
                       \* [requested, response, lateGet], lateGet once a GET that was
                       \* in flight when it completed has resolved

accVars == <<currentUserSettings, sinceActive, refreshInterval, timersLive, reqs, srv,
             lastGood, lastWrite>>

\* the PlatformClientAdapter, the GETs it has in flight and the server
VARIABLES
  sharedDeviceSettings,    \* the held promise: Pending(slot) or Resolved(optional settings)
  platformSinceActive,     \* Date.now() - lastActive, in steps, saturated at IdleCap
  platformRefreshInterval, \* None (null) or Some(steps until the next tick)
  platformTimersLive,      \* the setInterval timers of the adapter that are live
  platformReqs,            \* the GETs in flight, by slot
  device                   \* the shared device settings as the server holds them

platVars == <<sharedDeviceSettings, platformSinceActive, platformRefreshInterval,
              platformTimersLive, platformReqs, device>>

\* the EightSleepConnection, the platform's discovery, the disk and the clock
VARIABLES
  now,               \* Date.now(), in steps of the validation period
  sessionFile,       \* what readCache gets from the session cache file (optional)
  userFile,          \* what readCache gets from the primary user cache file (optional)
  diskWrites,        \* writeFile calls on the session cache file nobody awaits,
                     \* still in flight: the data of each
  runs,              \* the calls of prepareSession, in order; the field `session`
                     \* is the promise of the latest one
  awaiting,          \* validateActiveSession calls awaiting the promise of each run
  erasing,           \* reauthenticate calls awaiting their eraseCache
  headers,           \* clientAPI.defaults.headers.common: the token sent (optional)
  loginRequests,     \* observer: POST /login requests sent so far
  primaryUserDevice, \* preparePrimaryUser: [stage, run, value, session]
  discovery,         \* discoverDevices: [stage, run, session, platformClient,
                     \* accessories, registered]
  lastRequest        \* observer: the last request an adapter sent: [pending], whether
                     \* the promise `session` held was pending when it left

connVars == <<now, sessionFile, userFile, diskWrites, runs, awaiting, erasing, headers,
              loginRequests, primaryUserDevice, discovery, lastRequest>>

\* what the platform is started with, what its constructor logged, and the
\* account on the server
VARIABLES
  config,        \* config.json: whether `email` and `password` are truthy
  configErrors,  \* observer: 'Unable to setup plugin' errors logged
  restored,      \* the sides of the accessories homebridge restored from its cache
  serverUser     \* the user GET /users/me answers with

startVars == <<config, configErrors, restored, serverUser>>

\* the EightSleepThermostatAccessory: its publish loop and its service
VARIABLES
  service,                 \* the values last pushed with updateCharacteristic (optional)
  pluginSinceActive,       \* Date.now() - lastActive, in publish periods, saturated
  pluginRefreshInterval,   \* None (null) or Some(periods until the next tick)
  pluginTimersLive,        \* the setInterval timers of the accessory that are live
  temperatureDisplayUnits  \* the field of that name

thermoVars == <<service, pluginSinceActive, pluginRefreshInterval, pluginTimersLive,
                temperatureDisplayUnits>>

\* the call of updateTargetTemperature that is followed
VARIABLES
  setTarget  \* [stage, tempC, targetLevel, slot, receivedLevel, mismatch, pushed]

writeVars == <<setTarget>>

\* the call of checkForUpdates on the followed adapter
VARIABLES
  peeking,  \* the call that awaits a pending promise: [slot, side]; slot 0 when none
  peeked    \* what the last call returned (optional)

\* the calls of getCurrentLevelForSide, one accessory on each side of the bed
VARIABLES
  reading,   \* per side, the request whose promise the call awaits (0: none)
  levelRead  \* per side, the level the last call returned (optional)

readVars == <<reading, levelRead>>

peekVars == <<peeking, peeked, readVars>>

\* which object has been constructed and is followed (the polling caches and
\* the publish loop share no state, and a run follows one instance), and
\* whether it has been brought back from standby since (observer)
VARIABLES constructed, restarted

harnessVars == <<constructed, restarted>>

vars == <<mapperVars, accVars, platVars, connVars, startVars, thermoVars, writeVars,
          peekVars, harnessVars>>

\* the parts of the plugin an operation of the mapper leaves alone
MapperFrame ==
  UNCHANGED <<accVars, platVars, connVars, startVars, thermoVars, writeVars, peekVars,
              harnessVars>>

\* the parts of the plugin an operation of the accessory adapter leaves alone
AccessoryFrame ==
  UNCHANGED <<mapperVars, platVars, connVars, startVars, thermoVars, writeVars, constructed>>

\* the parts of the plugin the completion of a PUT leaves alone
PutFrame ==
  UNCHANGED <<mapperVars, platVars, connVars, startVars, thermoVars, constructed>>

\* the parts of the plugin an operation of the platform adapter leaves alone
PlatformFrame ==
  UNCHANGED <<mapperVars, accVars, connVars, startVars, thermoVars, writeVars, constructed>>

\* the parts of the plugin an operation of the connection leaves alone
ConnectionFrame ==
  UNCHANGED <<mapperVars, accVars, platVars, startVars, thermoVars, writeVars, peekVars,
              harnessVars>>

\* the parts of the plugin an operation of the thermostat accessory leaves alone
ThermostatFrame ==
  UNCHANGED <<mapperVars, accVars, platVars, connVars, startVars, writeVars, peekVars,
              constructed>>

MinLevel == -100
MaxLevel == 100

cooling_tempF_start == 61
cooling_tempF_end == 80
cooling_level_start == -89
cooling_level_end == -1
heating_tempF_start == 81
heating_tempF_end == 113
heating_level_start == 2
heating_level_end == 101

\* first degree of the one-level-per-degree segment, at level -100
low_tempF_start == 50

Levels == MinLevel .. MaxLevel

\* cooling_tempF_start + Math.round(slope * (level - cooling_level_start))
getCoolingTempF(level) ==
  cooling_tempF_start
    + RoundDiv((cooling_tempF_end - cooling_tempF_start) * (level - cooling_level_start),
               cooling_level_end - cooling_level_start)

\* heating_tempF_start + Math.round(slope * (level - heating_level_start))
getHeatingTempF(level) ==
  heating_tempF_start
    + RoundDiv((heating_tempF_end - heating_tempF_start) * (level - heating_level_start),
               heating_level_end - heating_level_start)

\* a plausible slip: the offset of the low segment applied with the wrong sign
calculateTempF_signSlip(level) ==
  IF level <= cooling_level_start THEN low_tempF_start + (MinLevel - level)
  ELSE IF level <= cooling_level_end THEN getCoolingTempF(level)
  ELSE getHeatingTempF(level)

calculateTempF(level) ==
  IF level <= cooling_level_start THEN low_tempF_start - (MinLevel - level)
  ELSE IF level <= cooling_level_end THEN getCoolingTempF(level)
  ELSE getHeatingTempF(level)

\* formatCelsius((tempF - 32) * 5/9), in hundredths of a degree
\* (Math.trunc; tempF >= 32 on every level, so truncation is the floor)
tempCFor(tempF) == ((tempF - 32) * 500) \div 9

\* a plausible slip: the guard dropped, every level overwrites the inverse entry
updateRecords_overwrite(tempF, level) ==
  /\ lvlsToTempMap' = Store(lvlsToTempMap, level, tempF)
  /\ celsiusToF' = Store(celsiusToF, tempCFor(tempF), tempF)
  /\ fahrenheitToC' = Store(fahrenheitToC, tempF, tempCFor(tempF))
  /\ tempsToLvlMap' = Store(tempsToLvlMap, tempF, level)

\* a plausible slip: the forward entry moved under the write-once guard too
updateRecords_allGuarded(tempF, level) ==
  IF ~Truthy(Lookup(tempsToLvlMap, tempF))
    THEN /\ lvlsToTempMap' = Store(lvlsToTempMap, level, tempF)
         /\ celsiusToF' = Store(celsiusToF, tempCFor(tempF), tempF)
         /\ fahrenheitToC' = Store(fahrenheitToC, tempF, tempCFor(tempF))
         /\ tempsToLvlMap' = Store(tempsToLvlMap, tempF, level)
    ELSE UNCHANGED <<lvlsToTempMap, celsiusToF, fahrenheitToC, tempsToLvlMap>>

updateRecords(tempF, level) ==
  /\ lvlsToTempMap' = Store(lvlsToTempMap, level, tempF)
  /\ IF ~Truthy(Lookup(tempsToLvlMap, tempF))
       THEN /\ celsiusToF' = Store(celsiusToF, tempCFor(tempF), tempF)
            /\ fahrenheitToC' = Store(fahrenheitToC, tempF, tempCFor(tempF))
            /\ tempsToLvlMap' = Store(tempsToLvlMap, tempF, level)
       ELSE UNCHANGED <<celsiusToF, fahrenheitToC, tempsToLvlMap>>

levelToFahrenheit(level) == Lookup(lvlsToTempMap, level)

fahrenheitToLevel(degF) == Lookup(tempsToLvlMap, degF)

\* a temperature is a double: the one nearest to its hundredths over 100
\* (the division of formatCelsius is correctly rounded), with a significand
\* of this many bits
DoubleBits == 53

\* hundredths in a degree
CentsPerDegree == 100

\* 2^n modulo CentsPerDegree
RECURSIVE Pow2Mod(_)
Pow2Mod(n) == IF n = 0 THEN 1 ELSE (2 * Pow2Mod(n - 1)) % CentsPerDegree

\* the least j >= from with h / 100 < 2^j, for h >= 50: the double of h / 100
\* is a multiple of 2^(j - DoubleBits)
RECURSIVE Binade(_, _)
Binade(h, from) == IF h < CentsPerDegree * 2^from THEN from ELSE Binade(h, from + 1)

\* double(h / 100) - h / 100, in units of 2^(-DoubleBits) / 100: the double
\* is the nearest multiple of 2^(j - DoubleBits), and no h is half way
\* between two of them (the residue is a multiple of 4)
RoundingError(h) ==
  LET j == Binade(h, 0)
      r == ((h % CentsPerDegree) * Pow2Mod(DoubleBits - j)) % CentsPerDegree
  IN (IF 2 * r < CentsPerDegree THEN 0 - r ELSE CentsPerDegree - r) * 2^j

\* a temperature a caller passes in is in units of 1e-5 degrees Celsius;
\* this many of them make a hundredth
PerHundredth == 1000

\* the least e >= from with h < 2^(e + 1): doubles between 2^e and 2^(e + 1)
\* are 2^(e + 1 - DoubleBits) apart
RECURSIVE Exponent(_, _)
Exponent(h, from) == IF h < 2^(from + 1) THEN from ELSE Exponent(h, from + 1)

\* formatCelsius: Math.trunc(100 * degC) / 100, in hundredths of a degree
\* (no temperature of the thermostat's range is negative).  A degC that is
\* a whole number h of hundredths is the double nearest to h / 100; when
\* that double is below h / 100 by more than half the spacing of the
\* doubles under h, taken a hundred times, the product 100 * degC rounds
\* to the double under h and the truncation gives h - 1.
formatCelsius(degC) ==
  LET h == degC \div PerHundredth
      j == Binade(h, 0)
      r == ((h % CentsPerDegree) * Pow2Mod(DoubleBits - j)) % CentsPerDegree
  IN IF /\ degC % PerHundredth = 0
        /\ 2 * r < CentsPerDegree
        /\ r > 2^(Exponent(h, 0) - j)
       THEN h - 1
       ELSE h

\* celsiusToLevel: tempsToLvlMap[celsiusToF[formatCelsius(degC)]]
celsiusToLevel(degC) ==
  LET tempF == Lookup(celsiusToF, formatCelsius(degC))
  IN IF IsSome(tempF) THEN Lookup(tempsToLvlMap, Val(tempF)) ELSE None

\* levelToCelsius: fahrenheitToC[lvlsToTempMap[level]]
levelToCelsius(level) ==
  LET tempF == Lookup(lvlsToTempMap, level)
  IN IF IsSome(tempF) THEN Lookup(fahrenheitToC, Val(tempF)) ELSE None

\* the tables are complete once the loop of generateMaps has run out
MapsBuilt == lvl > MaxLevel

\* degrees a caller may ask the inverse map for: every mapped one and one beyond each end
AskedDegrees == (low_tempF_start - 1) .. (heating_tempF_end + 1)

\* one iteration of the loop of generateMaps
GenerateMapsStep ==
  /\ lvl <= MaxLevel
  /\ updateRecords(calculateTempF(lvl), lvl)
  /\ lvl' = lvl + 1
  /\ UNCHANGED <<asked, answer>>
  /\ MapperFrame

\* a caller maps a level to its temperature
AskLevelToFahrenheit ==
  /\ MapsBuilt
  /\ \E level \in Levels :
       /\ asked' = Some([op |-> "levelToFahrenheit", arg |-> level])
       /\ answer' = levelToFahrenheit(level)
  /\ UNCHANGED <<lvl, lvlsToTempMap, tempsToLvlMap, celsiusToF, fahrenheitToC>>
  /\ MapperFrame

\* a caller maps a temperature to its level
AskFahrenheitToLevel ==
  /\ MapsBuilt
  /\ \E degF \in AskedDegrees :
       /\ asked' = Some([op |-> "fahrenheitToLevel", arg |-> degF])
       /\ answer' = fahrenheitToLevel(degF)
  /\ UNCHANGED <<lvl, lvlsToTempMap, tempsToLvlMap, celsiusToF, fahrenheitToC>>
  /\ MapperFrame

\* a caller maps the Celsius temperature of a level back to a level, as the
\* accessory does with a temperature it has published
AskCelsiusToLevel ==
  /\ MapsBuilt
  /\ \E level \in Levels :
       /\ asked' = Some([op |-> "celsiusToLevel", arg |-> level])
       /\ answer' = celsiusToLevel(PerHundredth * Val(levelToCelsius(level)))
  /\ UNCHANGED <<lvl, lvlsToTempMap, tempsToLvlMap, celsiusToF, fahrenheitToC>>
  /\ MapperFrame

NextMapper ==
  \/ GenerateMapsStep
  \/ AskLevelToFahrenheit
  \/ AskFahrenheitToLevel
  \/ AskCelsiusToLevel

(***************************************************************************)
(*                        AccessoryClientAdapter                           *)
(*                                                                         *)
(* Time is counted in steps of SecPerStep seconds.  A setInterval handle   *)
(* is the number of steps until its next tick; null is None.  lastActive   *)
(* is kept as the time elapsed since it was set (sinceActive), which is    *)
(* all the code compares: lastActive < Date.now() - 90 s.                  *)
(* A request in flight is a slot of `reqs`; the promise of a GET is named  *)
(* by its slot.  Answering a GET changes nothing on the server, so the     *)
(* answer is drawn when the promise resolves; what a PUT does on the       *)
(* server before its response arrives (or is lost) is a ServerChange.      *)
(***************************************************************************)
\* seconds per step of the clock
SecPerStep == 7

\* requests (GET and PUT) in flight at once
MaxInFlight == 2

RefreshPeriodSec == 15
InactivitySec == 90

\* period of the refresh timer and the inactivity timeout, in steps
Rho == RefreshPeriodSec \div SecPerStep
Tau == InactivitySec \div SecPerStep

\* sinceActive saturates one step after the latest tick that can still fetch
IdleCap == Tau + Rho + 1

\* levels the server and the callers use in the model
SomeLevels == {48, 50}

DeviceModeOn == "smart"
DeviceModeOff == "off"

\* interface UserSettings
UserSettings == [currentLevel : SomeLevels, type : {DeviceModeOn}]

Slots == 1 .. MaxInFlight

FreeSlot == [kind |-> "free", level |-> 0, beforeAck |-> FALSE]

Pending(i) == [pending |-> i, value |-> None]
Resolved(v) == [pending |-> 0, value |-> v]
IsPending(p) == p.pending # 0

HasFreeSlot(rs) == \E i \in Slots : rs[i].kind = "free"
LowestFree(rs) ==
  CHOOSE i \in Slots : rs[i].kind = "free" /\ \A j \in Slots : rs[j].kind = "free" => i <= j

\* Client.get(currentState(usersEndpoint)): a GET leaves; its promise is the slot.
\* beforeAck: a write was acknowledged while this GET was in flight
NewGet == [kind |-> "get", level |-> 0, beforeAck |-> FALSE]

\* Client.put(updateState(usersEndpoint, 'currentLevel', newLevel))
NewPut(newLevel) == [kind |-> "put", level |-> newLevel, beforeAck |-> FALSE]

\* `settings ? settings.currentLevel : 0`
LevelOf(settings) == IF IsSome(settings) THEN Val(settings).currentLevel ELSE 0

\* what getUserTargetLevel / checkForUpdates return for the target level
\* when the held promise is resolved
ReadTargetLevel == LevelOf(currentUserSettings.value)

\* setInterval(...): one more timer is live
setInterval(live) == live + 1

\* global.clearInterval(handle) of a live timer
clearInterval(live) == live - 1

\* a plausible slip: the handle is never cleared
clearRefreshIfNotActive_never(idle, live) == [handle |-> Some(Rho), live |-> live]

\* a plausible slip: the timer is cancelled once the inactivity has reached
\* the timeout, not once it has passed it
clearRefreshIfNotActive_atTau(idle, live) ==
  IF idle >= Tau THEN [handle |-> None, live |-> clearInterval(live)]
  ELSE [handle |-> Some(Rho), live |-> live]

\* clearRefreshIfNotActive, run at the end of a tick: the handle it leaves
\* (the timer still running, its next tick a period away, or null) and the
\* timers left live
clearRefreshIfNotActive(idle, live) ==
  IF idle > Tau THEN [handle |-> None, live |-> clearInterval(live)]
  ELSE [handle |-> Some(Rho), live |-> live]

\* refreshState: currentUserSettings = fetchCurrentSettings(); clearRefreshIfNotActive()
RefreshState ==
  /\ constructed = "accessory"
  /\ refreshInterval = Some(0)
  /\ HasFreeSlot(reqs)
  /\ LET i == LowestFree(reqs)
     IN /\ reqs' = [reqs EXCEPT ![i] = NewGet]
        /\ currentUserSettings' = Pending(i)
  /\ LET c == clearRefreshIfNotActive(sinceActive, timersLive)
     IN /\ refreshInterval' = c.handle
        /\ timersLive' = c.live
  /\ UNCHANGED <<sinceActive, srv, lastGood, lastWrite, restarted, peekVars>>
  /\ AccessoryFrame

\* a plausible slip: every activity starts a timer, whether one runs or not
setAccessoryAsActive_always(rs, held) ==
  IF refreshInterval = None
    THEN [reqs |-> [rs EXCEPT ![LowestFree(rs)] = NewGet],
          held |-> Pending(LowestFree(rs)),
          timer |-> Some(Rho),
          live |-> setInterval(timersLive)]
    ELSE [reqs |-> rs, held |-> held, timer |-> Some(Rho),
          live |-> setInterval(timersLive)]

\* a plausible slip: an activity in standby restarts the timer and leaves the
\* fetch to its first tick
setAccessoryAsActive_timerOnly(rs, held) ==
  IF refreshInterval = None
    THEN [reqs |-> rs, held |-> held, timer |-> Some(Rho),
          live |-> setInterval(timersLive)]
    ELSE [reqs |-> rs, held |-> held, timer |-> refreshInterval, live |-> timersLive]

\* setAccessoryAsActive on the requests rs and the held promise held:
\* [reqs, held, timer, live] after it (lastActive is set by the caller's
\* step); it fetches and starts the timer only when the handle is null
setAccessoryAsActive(rs, held) ==
  IF refreshInterval = None
    THEN [reqs |-> [rs EXCEPT ![LowestFree(rs)] = NewGet],
          held |-> Pending(LowestFree(rs)),
          timer |-> Some(Rho),
          live |-> setInterval(timersLive)]
    ELSE [reqs |-> rs, held |-> held, timer |-> refreshInterval, live |-> timersLive]

\* getUserTargetLevel / getAccessoryIsOn up to their await
GetActive ==
  /\ constructed = "accessory"
  /\ refreshInterval = None => HasFreeSlot(reqs)
  /\ LET a == setAccessoryAsActive(reqs, currentUserSettings)
     IN /\ reqs' = a.reqs
        /\ currentUserSettings' = a.held
        /\ refreshInterval' = a.timer
        /\ timersLive' = a.live
  /\ sinceActive' = 0
  /\ restarted' = (restarted \/ refreshInterval = None)
  /\ UNCHANGED <<srv, lastGood, lastWrite, peekVars>>
  /\ AccessoryFrame

\* updateUserTargetLevel up to its await: the PUT leaves
StartPut ==
  /\ constructed = "accessory"
  /\ HasFreeSlot(reqs)
  /\ \E newLevel \in SomeLevels :
       reqs' = [reqs EXCEPT ![LowestFree(reqs)] = NewPut(newLevel)]
  /\ UNCHANGED <<currentUserSettings, sinceActive, refreshInterval, timersLive, srv,
                 lastGood, lastWrite, restarted, peekVars>>
  /\ AccessoryFrame

\* no call of checkForUpdates is awaiting
NoPeek == [slot |-> 0, side |-> "none"]

\* AccessoryClientAdapter.checkForUpdates after its await, on the settings
\* the promise resolved with: [targetState, targetLevel]
checkForUpdates(settings) ==
  IF IsSome(settings)
    THEN [targetState |-> IF Val(settings).type = DeviceModeOff THEN 0 ELSE 3,
          targetLevel |-> Val(settings).currentLevel]
    ELSE [targetState |-> 0, targetLevel |-> 0]

\* a plausible slip: the peek marks the accessory active like the other reads
CheckForUpdates_marksActive ==
  /\ constructed = "accessory"
  /\ peeking = NoPeek
  /\ ~IsPending(currentUserSettings)
  /\ peeked' = Some(checkForUpdates(currentUserSettings.value))
  /\ sinceActive' = 0
  /\ UNCHANGED <<currentUserSettings, refreshInterval, timersLive, reqs, srv, lastGood,
                 lastWrite, peeking, readVars, restarted>>
  /\ AccessoryFrame

\* AccessoryClientAdapter.checkForUpdates: it awaits the promise held when it
\* is called, and returns at once when that promise has resolved
CheckForUpdates ==
  /\ constructed = "accessory"
  /\ peeking = NoPeek
  /\ IF IsPending(currentUserSettings)
       THEN /\ peeking' = [slot |-> currentUserSettings.pending, side |-> "none"]
            /\ UNCHANGED peeked
       ELSE /\ peeked' = Some(checkForUpdates(currentUserSettings.value))
            /\ UNCHANGED peeking
  /\ UNCHANGED <<accVars, restarted, readVars>>
  /\ AccessoryFrame

\* a plausible slip: the response is written into the held slot when it
\* arrives, whichever promise the slot then holds
fetchCurrentSettings_writesSlot(i, response) ==
  /\ reqs[i].kind = "get"
  /\ reqs' = [reqs EXCEPT ![i] = FreeSlot]
  /\ currentUserSettings' = Resolved(response)
  /\ lastGood' = IF IsSome(response) THEN response ELSE lastGood
  /\ lastWrite' = IF reqs[i].beforeAck /\ IsSome(lastWrite)
                    THEN Some([Val(lastWrite) EXCEPT !.lateGet = TRUE])
                    ELSE lastWrite
  /\ IF peeking.slot = i
       THEN /\ peeking' = NoPeek
            /\ peeked' = Some(checkForUpdates(response))
            /\ UNCHANGED readVars
       ELSE UNCHANGED peekVars
  /\ UNCHANGED <<sinceActive, refreshInterval, timersLive, srv, restarted>>

\* a plausible slip: a failed request throws into the timer callback and
\* the recurring timer dies with it
fetchCurrentSettings_throws(i, response) ==
  /\ reqs[i].kind = "get"
  /\ reqs' = [reqs EXCEPT ![i] = FreeSlot]
  /\ IF currentUserSettings = Pending(i)
       THEN /\ currentUserSettings' = Resolved(response)
            /\ lastGood' = IF IsSome(response) THEN response ELSE lastGood
       ELSE UNCHANGED <<currentUserSettings, lastGood>>
  /\ lastWrite' = IF reqs[i].beforeAck /\ IsSome(lastWrite)
                    THEN Some([Val(lastWrite) EXCEPT !.lateGet = TRUE])
                    ELSE lastWrite
  /\ IF peeking.slot = i
       THEN /\ peeking' = NoPeek
            /\ peeked' = Some(checkForUpdates(response))
            /\ UNCHANGED readVars
       ELSE UNCHANGED peekVars
  /\ IF response = None /\ IsSome(refreshInterval)
       THEN refreshInterval' = None /\ timersLive' = clearInterval(timersLive)
       ELSE UNCHANGED <<refreshInterval, timersLive>>
  /\ UNCHANGED <<sinceActive, srv, restarted>>

\* fetchCurrentSettings after its await: the promise of GET i resolves with
\* the response of Client.get (null when the request failed)
fetchCurrentSettings(i, response) ==
  /\ reqs[i].kind = "get"
  /\ reqs' = [reqs EXCEPT ![i] = FreeSlot]
  /\ IF currentUserSettings = Pending(i)
       THEN /\ currentUserSettings' = Resolved(response)
            /\ lastGood' = IF IsSome(response) THEN response ELSE lastGood
       ELSE UNCHANGED <<currentUserSettings, lastGood>>
  /\ lastWrite' = IF reqs[i].beforeAck /\ IsSome(lastWrite)
                    THEN Some([Val(lastWrite) EXCEPT !.lateGet = TRUE])
                    ELSE lastWrite
  /\ IF peeking.slot = i
       THEN /\ peeking' = NoPeek
            /\ peeked' = Some(checkForUpdates(response))
            /\ UNCHANGED readVars
       ELSE UNCHANGED peekVars
  /\ UNCHANGED <<sinceActive, refreshInterval, timersLive, srv, restarted>>

\* Client.get returns res.data
GetSucceeds ==
  /\ \E i \in Slots : fetchCurrentSettings(i, Some(srv))
  /\ AccessoryFrame

\* Client.get catches the rejection and returns null
GetFails ==
  /\ \E i \in Slots : fetchCurrentSettings(i, None)
  /\ AccessoryFrame

\* a plausible slip: the response is stored first and the accessory marked
\* active after it, so the fetch of a cache in standby replaces the response
updateCurrentSettingsFrom_activeLast(rs, response) ==
  setAccessoryAsActive(rs, Resolved(response))

\* updateCurrentSettingsFrom(response): setAccessoryAsActive(), then
\* currentUserSettings = Promise.resolve(response)
updateCurrentSettingsFrom(rs, response) ==
  [setAccessoryAsActive(rs, currentUserSettings) EXCEPT !.held = Resolved(response)]

\* no call of updateTargetTemperature has been made
NoSetTarget ==
  [stage |-> "idle", tempC |-> 0, targetLevel |-> None, slot |-> 0,
   receivedLevel |-> None, mismatch |-> FALSE, pushed |-> None]

\* a plausible slip: the temperatures compared and the levels not
verifyInSyncTemps_celsiusOnly(targetC, targetLevel, receivedLevel) ==
  Some(formatCelsius(targetC)) # levelToCelsius(receivedLevel)

\* verifyInSyncTemps: whether it logs 'Local/remote temp mismatch'
verifyInSyncTemps(targetC, targetLevel, receivedLevel) ==
  \/ Some(formatCelsius(targetC)) # levelToCelsius(receivedLevel)
  \/ targetLevel # receivedLevel

\* a plausible slip: the write is verified and the current state left to
\* the next tick of the publish loop
updateTargetTemperature_noPush(call, newLevel, response) ==
  LET receivedLevel == IF IsSome(response) THEN Val(response).currentLevel ELSE newLevel
  IN [call EXCEPT !.stage = "done",
                  !.receivedLevel = Some(receivedLevel),
                  !.mismatch = verifyInSyncTemps(call.tempC, Val(call.targetLevel),
                                                 receivedLevel)]

\* updateTargetTemperature after `await updateUserTargetLevel(targetLevel)`,
\* which returned `response ? response.currentLevel : newLevel`: it runs
\* verifyInSyncTemps and calls updateCurrentHCState
updateTargetTemperature(call, newLevel, response) ==
  LET receivedLevel == IF IsSome(response) THEN Val(response).currentLevel ELSE newLevel
  IN [call EXCEPT !.stage = "state",
                  !.receivedLevel = Some(receivedLevel),
                  !.mismatch = verifyInSyncTemps(call.tempC, Val(call.targetLevel),
                                                 receivedLevel)]

\* updateUserTargetLevel after its await: the PUT of slot i has completed
\* with the response of Client.put (null when the request failed); the
\* call of updateTargetTemperature that awaits it resumes
updateUserTargetLevel(i, response) ==
  /\ reqs[i].kind = "put"
  /\ LET done == [j \in Slots |->
                    IF j = i THEN FreeSlot
                    ELSE IF reqs[j].kind = "get" THEN [reqs[j] EXCEPT !.beforeAck = TRUE]
                    ELSE reqs[j]]
         u == updateCurrentSettingsFrom(done, response)
     IN /\ reqs' = u.reqs
        /\ currentUserSettings' = u.held
        /\ refreshInterval' = u.timer
        /\ timersLive' = u.live
        /\ lastWrite' = Some([requested |-> reqs[i].level, response |-> response,
                              lateGet |-> FALSE])
        /\ lastGood' = IF IsSome(response) THEN response ELSE lastGood
  /\ sinceActive' = 0
  /\ restarted' = (restarted \/ refreshInterval = None)
  /\ setTarget' = IF setTarget.stage = "put" /\ setTarget.slot = i
                    THEN updateTargetTemperature(setTarget, reqs[i].level, response)
                    ELSE setTarget
  /\ UNCHANGED peekVars

\* the server applies the PUT and acknowledges with its new settings; the
\* level it acknowledges need not be the requested one
PutSucceeds ==
  /\ \E i \in Slots : \E ack \in SomeLevels :
       /\ srv' = [srv EXCEPT !.currentLevel = ack]
       /\ updateUserTargetLevel(i, Some(srv'))
  /\ PutFrame

\* Client.put catches the rejection and returns null
PutFails ==
  /\ \E i \in Slots : updateUserTargetLevel(i, None)
  /\ UNCHANGED srv
  /\ PutFrame

\* the settings change on the server from outside the process (vendor app)
ServerChange ==
  /\ constructed = "accessory"
  /\ \E s \in UserSettings : s # srv /\ srv' = s
  /\ UNCHANGED <<currentUserSettings, sinceActive, refreshInterval, timersLive, reqs,
                 lastGood, lastWrite, restarted, peekVars>>
  /\ AccessoryFrame

\* after the constructor: the field initialiser has issued the first GET,
\* lastActive is now and the refresh timer runs
AccessoryConstructed ==
  /\ reqs = [i \in Slots |-> IF i = 1 THEN NewGet ELSE FreeSlot]
  /\ currentUserSettings = Pending(1)
  /\ sinceActive = 0
  /\ refreshInterval = Some(Rho)
  /\ timersLive = setInterval(0)
  /\ srv \in UserSettings
  /\ lastGood = None
  /\ lastWrite = None

\* no AccessoryClientAdapter exists
AccessoryAbsent ==
  /\ reqs = [i \in Slots |-> FreeSlot]
  /\ currentUserSettings = Resolved(None)
  /\ sinceActive = 0
  /\ refreshInterval = None
  /\ timersLive = 0
  /\ srv = [currentLevel |-> 48, type |-> DeviceModeOn]
  /\ lastGood = None
  /\ lastWrite = None

(***************************************************************************)
(*                         PlatformClientAdapter                           *)
(* The same clock, handles and request slots as the accessory adapter.     *)
(***************************************************************************)

\* interface SharedDeviceSettings, the two fields the adapter reads
SharedDeviceSettings == [leftHeatingLevel : SomeLevels, rightHeatingLevel : SomeLevels]

\* a plausible slip: the handle is never cleared
platformClearRefreshIfNotActive_never(idle, live) ==
  [handle |-> Some(Rho), live |-> live]

\* PlatformClientAdapter.clearRefreshIfNotActive, run at the end of a tick
platformClearRefreshIfNotActive(idle, live) ==
  IF idle > Tau THEN [handle |-> None, live |-> clearInterval(live)]
  ELSE [handle |-> Some(Rho), live |-> live]

\* PlatformClientAdapter.refreshState:
\* sharedDeviceSettings = loadSharedDeviceState(); clearRefreshIfNotActive()
PlatformRefreshState ==
  /\ constructed = "platform"
  /\ platformRefreshInterval = Some(0)
  /\ HasFreeSlot(platformReqs)
  /\ LET i == LowestFree(platformReqs)
     IN /\ platformReqs' = [platformReqs EXCEPT ![i] = NewGet]
        /\ sharedDeviceSettings' = Pending(i)
  /\ LET c == platformClearRefreshIfNotActive(platformSinceActive, platformTimersLive)
     IN /\ platformRefreshInterval' = c.handle
        /\ platformTimersLive' = c.live
  /\ UNCHANGED <<platformSinceActive, device, restarted, peekVars>>
  /\ PlatformFrame

\* the parameter `side: 'left' | 'right'`
BedSides == {"left", "right"}

\* PlatformClientAdapter.checkForUpdates(side) after its await, on the
\* settings the promise resolved with
platformCheckForUpdates(side, currentSettings) ==
  IF side = "left"
    THEN [currentLevel |-> IF IsSome(currentSettings)
                             THEN Val(currentSettings).leftHeatingLevel ELSE 0]
    ELSE [currentLevel |-> IF IsSome(currentSettings)
                             THEN Val(currentSettings).rightHeatingLevel ELSE 0]

\* a plausible slip: every read fetches, whether the timer runs or not
getCurrentLevelForSide_alwaysFetches ==
  /\ HasFreeSlot(platformReqs)
  /\ platformSinceActive' = 0
  /\ platformReqs' = [platformReqs EXCEPT ![LowestFree(platformReqs)] = NewGet]
  /\ sharedDeviceSettings' = Pending(LowestFree(platformReqs))
  /\ platformRefreshInterval' = Some(Rho)
  /\ platformTimersLive' = IF platformRefreshInterval = None
                             THEN setInterval(platformTimersLive)
                             ELSE platformTimersLive
  /\ restarted' = (restarted \/ platformRefreshInterval = None)
  /\ UNCHANGED device

\* getCurrentLevelForSide before it calls checkForUpdates: it marks the
\* adapter active and restarts the polling from standby
getCurrentLevelForSide ==
  /\ platformRefreshInterval = None => HasFreeSlot(platformReqs)
  /\ platformSinceActive' = 0
  /\ IF platformRefreshInterval = None
       THEN /\ platformReqs' = [platformReqs EXCEPT ![LowestFree(platformReqs)] = NewGet]
            /\ sharedDeviceSettings' = Pending(LowestFree(platformReqs))
            /\ platformRefreshInterval' = Some(Rho)
            /\ platformTimersLive' = setInterval(platformTimersLive)
       ELSE UNCHANGED <<platformReqs, sharedDeviceSettings, platformRefreshInterval,
                        platformTimersLive>>
  /\ restarted' = (restarted \/ platformRefreshInterval = None)
  /\ UNCHANGED device

\* getCurrentLevelForSide, its caller not followed
GetCurrentLevelForSide ==
  /\ constructed = "platform"
  /\ getCurrentLevelForSide
  /\ UNCHANGED peekVars
  /\ PlatformFrame

\* getCurrentLevelForSide(side) called by the accessory of one side, which
\* is followed: checkForUpdates(side) awaits the promise held after the
\* restart, and returns at once when that promise has resolved
AccessoryReadsLevel ==
  /\ constructed = "platform"
  /\ getCurrentLevelForSide
  /\ \E side \in BedSides :
       /\ reading[side] = 0
       /\ IF IsPending(sharedDeviceSettings')
            THEN /\ reading' = [reading EXCEPT ![side] = sharedDeviceSettings'.pending]
                 /\ levelRead' = [levelRead EXCEPT ![side] = None]
            ELSE /\ levelRead' =
                      [levelRead EXCEPT ![side] =
                         Some(platformCheckForUpdates(side, sharedDeviceSettings'.value).currentLevel)]
                 /\ UNCHANGED reading
  /\ UNCHANGED <<peeking, peeked>>
  /\ PlatformFrame

\* PlatformClientAdapter.checkForUpdates(side): it awaits the promise held
\* when it is called, and returns at once when that promise has resolved
PlatformCheckForUpdates ==
  /\ constructed = "platform"
  /\ peeking = NoPeek
  /\ \E side \in {"left", "right"} :
       IF IsPending(sharedDeviceSettings)
         THEN /\ peeking' = [slot |-> sharedDeviceSettings.pending, side |-> side]
              /\ UNCHANGED peeked
         ELSE /\ peeked' = Some(platformCheckForUpdates(side, sharedDeviceSettings.value))
              /\ UNCHANGED peeking
  /\ UNCHANGED <<platVars, restarted, readVars>>
  /\ PlatformFrame

\* loadSharedDeviceState after its await: the promise of GET i resolves with
\* `response ? response.result : null`, and every call that awaits it resumes
loadSharedDeviceState(i, result) ==
  /\ platformReqs[i].kind = "get"
  /\ platformReqs' = [platformReqs EXCEPT ![i] = FreeSlot]
  /\ sharedDeviceSettings' = IF sharedDeviceSettings = Pending(i) THEN Resolved(result)
                             ELSE sharedDeviceSettings
  /\ IF peeking.slot = i
       THEN /\ peeking' = NoPeek
            /\ peeked' = Some(platformCheckForUpdates(peeking.side, result))
       ELSE UNCHANGED <<peeking, peeked>>
  /\ reading' = [s \in BedSides |-> IF reading[s] = i THEN 0 ELSE reading[s]]
  /\ levelRead' = [s \in BedSides |->
                     IF reading[s] = i
                       THEN Some(platformCheckForUpdates(s, result).currentLevel)
                       ELSE levelRead[s]]
  /\ UNCHANGED <<platformSinceActive, platformRefreshInterval, platformTimersLive,
                 device, restarted>>

\* Client.get returns res.data
DeviceGetSucceeds ==
  /\ \E i \in Slots : loadSharedDeviceState(i, Some(device))
  /\ PlatformFrame

\* Client.get catches the rejection and returns null
DeviceGetFails ==
  /\ \E i \in Slots : loadSharedDeviceState(i, None)
  /\ PlatformFrame

\* the measured levels change on the device
DeviceChange ==
  /\ constructed = "platform"
  /\ \E d \in SharedDeviceSettings : d # device /\ device' = d
  /\ UNCHANGED <<sharedDeviceSettings, platformSinceActive, platformRefreshInterval,
                 platformTimersLive, platformReqs, restarted, peekVars>>
  /\ PlatformFrame

\* after the constructor: the field initialiser has issued the first GET,
\* lastActive is now and the refresh timer runs
PlatformConstructed ==
  /\ platformReqs = [i \in Slots |-> IF i = 1 THEN NewGet ELSE FreeSlot]
  /\ sharedDeviceSettings = Pending(1)
  /\ platformSinceActive = 0
  /\ platformRefreshInterval = Some(Rho)
  /\ platformTimersLive = setInterval(0)
  /\ device \in SharedDeviceSettings

\* no PlatformClientAdapter exists
PlatformAbsent ==
  /\ platformReqs = [i \in Slots |-> FreeSlot]
  /\ sharedDeviceSettings = Resolved(None)
  /\ platformSinceActive = 0
  /\ platformRefreshInterval = None
  /\ platformTimersLive = 0
  /\ device = [leftHeatingLevel |-> 48, rightHeatingLevel |-> 48]

\* elapsed time, one step later
Later(since) == IF since < IdleCap THEN since + 1 ELSE IdleCap

\* a handle, one step later
CountDown(handle) == IF IsSome(handle) THEN Some(Val(handle) - 1) ELSE None

\* SecPerStep seconds pass; a timer that is due runs before more time passes
Advance ==
  /\ constructed \in {"accessory", "platform"}
  /\ refreshInterval # Some(0) /\ platformRefreshInterval # Some(0)
  /\ IF constructed = "accessory"
       THEN /\ sinceActive' = Later(sinceActive)
            /\ refreshInterval' = CountDown(refreshInterval)
            /\ UNCHANGED <<platformSinceActive, platformRefreshInterval>>
       ELSE /\ platformSinceActive' = Later(platformSinceActive)
            /\ platformRefreshInterval' = CountDown(platformRefreshInterval)
            /\ UNCHANGED <<sinceActive, refreshInterval>>
  /\ UNCHANGED <<currentUserSettings, timersLive, reqs, srv, lastGood, lastWrite>>
  /\ UNCHANGED <<sharedDeviceSettings, platformTimersLive, platformReqs, device>>
  /\ UNCHANGED <<mapperVars, connVars, startVars, thermoVars, writeVars, peekVars,
                 harnessVars>>

(***************************************************************************)
(*                    EightSleepThermostatAccessory                        *)
(*                                                                         *)
(* The publish loop of one accessory.  Its clock counts periods of the     *)
(* publish timer (5 s).  The adapters are its environment here: a tick     *)
(* reads what their checkForUpdates return, which changes nothing in them. *)
(* Temperatures are in hundredths of a degree Celsius; a level the mapper  *)
(* has no entry for gives `undefined` (None).  Math.abs(target - current)  *)
(* is exact for the temperatures of the thermostat's range, so the         *)
(* comparisons are those of the numbers themselves.                        *)
(***************************************************************************)
PublishPeriodSec == 5
PluginInactivitySec == 120

\* the inactivity timeout of the publish loop, in periods
PluginTau == PluginInactivitySec \div PublishPeriodSec

\* pluginSinceActive saturates one period after the tick that cancels
PluginIdleCap == PluginTau + 2

\* tempsAreEqual: diff <= 0.55, in hundredths
Tolerance == 55

\* temperatures levelToCelsius hands to the publish loop in the model: the
\* entries for 68, 69, 95 and 96 degrees Fahrenheit, and undefined
PublishedTemps == {None, Some(2000), Some(2055), Some(3500), Some(3555)}

\* Math.abs of a number
Abs(x) == IF x < 0 THEN 0 - x ELSE x

\* Math.abs(target - current) <= 0.55 on the doubles of two temperatures
\* given in hundredths.  The subtraction is exact (both are multiples of
\* 2^-49 and the difference is below 1), so with hundredths exactly 0.55
\* apart the roundings of the two operands and of the literal decide.
WithinTolerance(a, b) ==
  LET lo == IF a < b THEN a ELSE b
      hi == IF a < b THEN b ELSE a
  IN \/ hi - lo < Tolerance
     \/ /\ hi - lo = Tolerance
        /\ RoundingError(hi) - RoundingError(lo) <= RoundingError(Tolerance)

\* a plausible slip: the tolerance taken as a strict bound
tempsAreEqual_strict(current, target) ==
  /\ IsSome(current) /\ IsSome(target)
  /\ Abs(Val(target) - Val(current)) < Tolerance

\* tempsAreEqual: Math.abs(target - current) <= 0.55 (NaN <= 0.55 is false)
tempsAreEqual(current, target) ==
  /\ IsSome(current) /\ IsSome(target)
  /\ WithinTolerance(Val(current), Val(target))

\* characteristicValueForCurrentState; `currentTemp < targetTemp` is false
\* when either is undefined
characteristicValueForCurrentState(currentTemp, targetTemp, targetState) ==
  IF targetState = 0 THEN "OFF"
  ELSE IF tempsAreEqual(currentTemp, targetTemp) THEN "OFF"
  ELSE IF IsSome(currentTemp) /\ IsSome(targetTemp) /\ Val(currentTemp) < Val(targetTemp)
    THEN "HEAT"
  ELSE "COOL"

\* publishLatestChanges with what the adapters' checkForUpdates returned,
\* mapped by levelToCelsius: the four updateCharacteristic calls
publishLatestChanges(targetState, targetTemp, currentTemp) ==
  Some([TargetHeatingCoolingState |-> targetState,
        TargetTemperature |-> targetTemp,
        CurrentTemperature |-> currentTemp,
        CurrentHeatingCoolingState |->
          characteristicValueForCurrentState(currentTemp, targetTemp, targetState)])

\* a plausible slip: the handle is set to null and the timer left running
pluginClearRefreshIfNotActive_leak(idle, live) ==
  IF idle > PluginTau THEN [handle |-> None, live |-> live]
  ELSE [handle |-> Some(1), live |-> live]

\* EightSleepThermostatAccessory.clearRefreshIfNotActive at the end of a
\* tick: the handle and the live timers it leaves
pluginClearRefreshIfNotActive(idle, live) ==
  IF idle > PluginTau THEN [handle |-> None, live |-> clearInterval(live)]
  ELSE [handle |-> Some(1), live |-> live]

\* refreshState of the accessory: publishLatestChanges(), whose awaits on
\* the adapters' promises have resolved, and clearRefreshIfNotActive()
ThermostatRefreshState ==
  /\ constructed \in {"thermostat", "both"}
  /\ pluginRefreshInterval = Some(0)
  /\ IF constructed = "both"
       THEN /\ ~IsPending(currentUserSettings) /\ ~IsPending(sharedDeviceSettings)
            /\ LET u == checkForUpdates(currentUserSettings.value)
                   c == platformCheckForUpdates("left", sharedDeviceSettings.value)
               IN service' = publishLatestChanges(u.targetState,
                                                  levelToCelsius(u.targetLevel),
                                                  levelToCelsius(c.currentLevel))
       ELSE \E targetState \in {0, 3} : \E targetTemp \in PublishedTemps :
              \E currentTemp \in PublishedTemps :
                service' = publishLatestChanges(targetState, targetTemp, currentTemp)
  /\ LET c == pluginClearRefreshIfNotActive(pluginSinceActive, pluginTimersLive)
     IN /\ pluginRefreshInterval' = c.handle
        /\ pluginTimersLive' = c.live
  /\ UNCHANGED <<pluginSinceActive, temperatureDisplayUnits, restarted>>
  /\ ThermostatFrame

\* setPluginAsActive: [handle, live] after it (lastActive is set by the
\* caller's step); it starts the timer only when the handle is null
setPluginAsActive(handle, live) ==
  IF handle = None THEN [handle |-> Some(1), live |-> setInterval(live)]
  ELSE [handle |-> handle, live |-> live]

\* handleTemperatureDisplayUnitsGet: setPluginAsActive, returns the units
HandleTemperatureDisplayUnitsGet ==
  /\ constructed = "thermostat"
  /\ LET a == setPluginAsActive(pluginRefreshInterval, pluginTimersLive)
     IN /\ pluginRefreshInterval' = a.handle
        /\ pluginTimersLive' = a.live
  /\ pluginSinceActive' = 0
  /\ restarted' = (restarted \/ pluginRefreshInterval = None)
  /\ UNCHANGED <<service, temperatureDisplayUnits>>
  /\ ThermostatFrame

\* handleTemperatureDisplayUnitsSet(value): stores the units, setPluginAsActive
HandleTemperatureDisplayUnitsSet ==
  /\ constructed = "thermostat"
  /\ \E value \in {0, 1} : temperatureDisplayUnits' = value
  /\ LET a == setPluginAsActive(pluginRefreshInterval, pluginTimersLive)
     IN /\ pluginRefreshInterval' = a.handle
        /\ pluginTimersLive' = a.live
  /\ pluginSinceActive' = 0
  /\ restarted' = (restarted \/ pluginRefreshInterval = None)
  /\ UNCHANGED service
  /\ ThermostatFrame

\* one publish period passes; a timer that is due runs before more time passes
ThermostatAdvance ==
  /\ constructed \in {"thermostat", "both"}
  /\ pluginRefreshInterval # Some(0)
  /\ pluginSinceActive' =
       IF pluginSinceActive < PluginIdleCap THEN pluginSinceActive + 1 ELSE PluginIdleCap
  /\ pluginRefreshInterval' = CountDown(pluginRefreshInterval)
  /\ UNCHANGED <<service, pluginTimersLive, temperatureDisplayUnits, restarted>>
  /\ ThermostatFrame

\* after the constructor: lastActive is now and the publish timer runs
ThermostatConstructed ==
  /\ service = None
  /\ pluginSinceActive = 0
  /\ pluginRefreshInterval = Some(1)
  /\ pluginTimersLive = setInterval(0)
  /\ temperatureDisplayUnits = 1

\* minTempC and minStep of the TargetTemperature characteristic, in 1e-5
\* degrees Celsius
MinTempC == 1000000
MinStep == 55556

\* the n-th value a controller can set
HomeKitTemp(n) == MinTempC + n * MinStep

\* the values set in a run: the ones for 96 and 97 degrees Fahrenheit, one
\* that is off the characteristic's steps, and the Celsius the tables hold
\* for 96 degrees, as the accessory publishes it
TargetTemperatures ==
  {HomeKitTemp(46), HomeKitTemp(47), HomeKitTemp(18) + PerHundredth,
   PerHundredth * tempCFor(96)}

\* the constructor of an accessory, once the mapper's module is loaded: it
\* constructs its AccessoryClientAdapter, whose field initialiser issues
\* the first GET and whose constructor starts the refresh timer, and
\* starts its own publish timer
ThermostatConstructor ==
  /\ MapsBuilt
  /\ constructed = "none"
  /\ constructed' = "both"
  /\ reqs' = [i \in Slots |-> IF i = 1 THEN NewGet ELSE FreeSlot]
  /\ currentUserSettings' = Pending(1)
  /\ sinceActive' = 0
  /\ refreshInterval' = Some(Rho)
  /\ timersLive' = setInterval(timersLive)
  /\ service' = None
  /\ pluginSinceActive' = 0
  /\ pluginRefreshInterval' = Some(1)
  /\ pluginTimersLive' = setInterval(pluginTimersLive)
  /\ UNCHANGED <<srv, lastGood, lastWrite, temperatureDisplayUnits, restarted>>
  /\ UNCHANGED <<mapperVars, platVars, connVars, startVars, writeVars, peekVars>>

\* a plausible slip: the guard logs the error and falls through to the write
HandleTargetTemperatureSet_putsAnyway ==
  /\ constructed = "both"
  /\ setTarget.stage \in {"idle", "rejected", "done"}
  /\ HasFreeSlot(reqs)
  /\ \E value \in TargetTemperatures :
       LET targetLevel == celsiusToLevel(value)
       IN IF ~Truthy(targetLevel) \/ Val(targetLevel) > MaxLevel
               \/ Val(targetLevel) < MinLevel
            THEN /\ setTarget' = [NoSetTarget EXCEPT !.stage = "rejected",
                                                     !.tempC = value,
                                                     !.targetLevel = targetLevel]
                 /\ reqs' = [reqs EXCEPT ![LowestFree(reqs)] = NewPut(0)]
            ELSE /\ reqs' = [reqs EXCEPT ![LowestFree(reqs)] = NewPut(Val(targetLevel))]
                 /\ setTarget' = [NoSetTarget EXCEPT !.stage = "put",
                                                     !.tempC = value,
                                                     !.targetLevel = targetLevel,
                                                     !.slot = LowestFree(reqs)]
  /\ LET a == setPluginAsActive(pluginRefreshInterval, pluginTimersLive)
     IN /\ pluginRefreshInterval' = a.handle
        /\ pluginTimersLive' = a.live
  /\ pluginSinceActive' = 0
  /\ UNCHANGED <<currentUserSettings, sinceActive, refreshInterval, timersLive, srv,
                 lastGood, lastWrite, service, temperatureDisplayUnits, restarted>>
  /\ UNCHANGED <<mapperVars, platVars, connVars, startVars, peekVars, constructed>>

\* handleTargetTemperatureSet(value): updateTargetTemperature up to its
\* await (a level that is undefined, 0 or out of range is logged and
\* nothing sent; otherwise the PUT of the level leaves), then
\* setPluginAsActive
HandleTargetTemperatureSet ==
  /\ constructed = "both"
  /\ setTarget.stage \in {"idle", "rejected", "done"}
  /\ HasFreeSlot(reqs)
  /\ \E value \in TargetTemperatures :
       LET targetLevel == celsiusToLevel(value)
       IN IF ~Truthy(targetLevel) \/ Val(targetLevel) > MaxLevel
               \/ Val(targetLevel) < MinLevel
            THEN /\ setTarget' = [NoSetTarget EXCEPT !.stage = "rejected",
                                                     !.tempC = value,
                                                     !.targetLevel = targetLevel]
                 /\ UNCHANGED reqs
            ELSE /\ reqs' = [reqs EXCEPT ![LowestFree(reqs)] = NewPut(Val(targetLevel))]
                 /\ setTarget' = [NoSetTarget EXCEPT !.stage = "put",
                                                     !.tempC = value,
                                                     !.targetLevel = targetLevel,
                                                     !.slot = LowestFree(reqs)]
  /\ LET a == setPluginAsActive(pluginRefreshInterval, pluginTimersLive)
     IN /\ pluginRefreshInterval' = a.handle
        /\ pluginTimersLive' = a.live
  /\ pluginSinceActive' = 0
  /\ UNCHANGED <<currentUserSettings, sinceActive, refreshInterval, timersLive, srv,
                 lastGood, lastWrite, service, temperatureDisplayUnits, restarted>>
  /\ UNCHANGED <<mapperVars, platVars, connVars, startVars, peekVars, constructed>>

\* Client.put(updateState(usersEndpoint, 'currentState', stateFor(mode))):
\* the slot carries the value the controller set, 3 (on) or 0 (off)
NewStatePut(newValue) == [kind |-> "turn", level |-> newValue, beforeAck |-> FALSE]

\* handleTargetHeatingCoolingStateSet(value): updateDeviceState up to its
\* await (the PUT of the mode leaves), then setPluginAsActive
HandleTargetHeatingCoolingStateSet ==
  /\ constructed = "both"
  /\ setTarget.stage \in {"idle", "rejected", "done"}
  /\ HasFreeSlot(reqs)
  /\ \E newValue \in {0, 3} :
       reqs' = [reqs EXCEPT ![LowestFree(reqs)] = NewStatePut(newValue)]
  /\ setTarget' = [NoSetTarget EXCEPT !.stage = "turn", !.slot = LowestFree(reqs)]
  /\ LET a == setPluginAsActive(pluginRefreshInterval, pluginTimersLive)
     IN /\ pluginRefreshInterval' = a.handle
        /\ pluginTimersLive' = a.live
  /\ pluginSinceActive' = 0
  /\ UNCHANGED <<currentUserSettings, sinceActive, refreshInterval, timersLive, srv,
                 lastGood, lastWrite, service, temperatureDisplayUnits, restarted>>
  /\ UNCHANGED <<mapperVars, platVars, connVars, startVars, peekVars, constructed>>

\* turnOnAccessory / turnOffAccessory after their await: the PUT of slot i
\* has completed with the response of Client.put (null when the request
\* failed), updateCurrentSettingsFrom stores it, and the call of
\* updateDeviceState that awaits it goes on to updateCurrentHCState
turnAccessory(i, response) ==
  /\ reqs[i].kind = "turn"
  /\ LET u == updateCurrentSettingsFrom([reqs EXCEPT ![i] = FreeSlot], response)
     IN /\ reqs' = u.reqs
        /\ currentUserSettings' = u.held
        /\ refreshInterval' = u.timer
        /\ timersLive' = u.live
        /\ lastGood' = IF IsSome(response) THEN response ELSE lastGood
  /\ sinceActive' = 0
  /\ restarted' = (restarted \/ refreshInterval = None)
  /\ setTarget' = IF setTarget.stage = "turn" /\ setTarget.slot = i
                    THEN [setTarget EXCEPT !.stage = "state"]
                    ELSE setTarget
  /\ UNCHANGED <<lastWrite, peekVars>>

\* the server applies the mode and acknowledges with its new settings
TurnSucceeds ==
  /\ \E i \in Slots :
       /\ reqs[i].kind = "turn"
       /\ srv' = [srv EXCEPT !.type = IF reqs[i].level = 0 THEN DeviceModeOff
                                      ELSE DeviceModeOn]
       /\ turnAccessory(i, Some(srv'))
  /\ PutFrame

\* Client.put catches the rejection and returns null
TurnFails ==
  /\ \E i \in Slots : turnAccessory(i, None)
  /\ UNCHANGED srv
  /\ PutFrame

\* getAccessoryIsOn after its await: settings?.currentState.type !== 'off'
getAccessoryIsOn(settings) == ~(IsSome(settings) /\ Val(settings).type = DeviceModeOff)

\* fetchTargetState: accessoryIsOn ? 3 : 0
fetchTargetState(settings) == IF getAccessoryIsOn(settings) THEN 3 ELSE 0

\* updateCurrentHCState, called at the end of updateTargetTemperature:
\* fetchCurrentState reads the adapters (getAccessoryIsOn and
\* getUserTargetLevel mark the accessory adapter active and await the
\* promise it holds; the measured temperature is the platform adapter's)
\* and the current state is pushed to the service
UpdateCurrentHCState ==
  /\ constructed = "both"
  /\ setTarget.stage = "state"
  /\ refreshInterval # None
  /\ ~IsPending(currentUserSettings)
  /\ \E currTemp \in PublishedTemps :
       LET settings == currentUserSettings.value
           targetState == fetchTargetState(settings)
           targetTemp == levelToCelsius(LevelOf(settings))
       IN setTarget' =
            [setTarget EXCEPT
               !.stage = "done",
               !.pushed = Some(characteristicValueForCurrentState(currTemp, targetTemp,
                                                                  targetState))]
  /\ sinceActive' = 0
  /\ UNCHANGED <<currentUserSettings, refreshInterval, timersLive, reqs, srv, lastGood,
                 lastWrite, restarted>>
  /\ UNCHANGED <<mapperVars, platVars, connVars, startVars, thermoVars, peekVars,
                 constructed>>

\* no EightSleepThermostatAccessory exists
ThermostatAbsent ==
  /\ service = None
  /\ pluginSinceActive = 0
  /\ pluginRefreshInterval = None
  /\ pluginTimersLive = 0
  /\ temperatureDisplayUnits = 1

NextPolling ==
  \/ RefreshState
  \/ GetActive
  \/ StartPut
  \/ GetSucceeds
  \/ GetFails
  \/ PutSucceeds
  \/ PutFails
  \/ ServerChange
  \/ PlatformRefreshState
  \/ GetCurrentLevelForSide
  \/ DeviceGetSucceeds
  \/ DeviceGetFails
  \/ DeviceChange
  \/ Advance
  \/ ThermostatRefreshState
  \/ HandleTemperatureDisplayUnitsGet
  \/ HandleTemperatureDisplayUnitsSet
  \/ ThermostatAdvance

(***************************************************************************)
(*              EightSleepConnection and device discovery                  *)
(*                                                                         *)
(* The clock counts periods of the validation timer, so every step of the  *)
(* clock is a tick of preserveConnection.  A call of prepareSession is a   *)
(* record of `runs`; its promise is its index, and the field `session`     *)
(* holds the latest one.  A continuation of a promise that has resolved    *)
(* runs before the clock moves.                                            *)
(***************************************************************************)
ValidationPeriodMin == 10
SafetyMarginMin == 20

\* the safety margin of isValid, in steps
Margin == SafetyMarginMin \div ValidationPeriodMin

\* the clock stops here
MaxTime == 3

\* calls of prepareSession in one process
MaxRuns == 2

\* lifetimes a login hands out: inside the margin on arrival, and beyond it
ShortTtl == Margin
LongTtl == Margin + 2
SessionTtls == {ShortTtl, LongTtl}

\* interface Session; token 0 was cached by an earlier process, token r
\* is the one the login of run r returned
Session(token, expirationDate) ==
  [token |-> token, expirationDate |-> expirationDate, userId |-> "me"]

\* PrimaryUser.currentDevice
CurrentDevice == [id |-> "pod", side |-> "left"]

\* a parsed user: its currentDevice is optional, a user without the property
\* (the file `{}`) has None
PrimaryUser(currentDevice) == [currentDevice |-> currentDevice]

\* the sides the API gives a primary user
Sides == {"solo", "left", "right"}

\* the users a cache file or a response can hold: with a device of each
\* side, with an empty device id, with an empty side, and without a device
Users ==
  {PrimaryUser(Some([id |-> "pod", side |-> side])) : side \in Sides}
    \cup {PrimaryUser(Some([id |-> "", side |-> "left"])),
          PrimaryUser(Some([id |-> "pod", side |-> ""])),
          PrimaryUser(None)}

\* a plausible slip: the expiry compared with the clock alone
isValid_noMargin(session, t) == session.expirationDate > t

\* verifyFields: session.token && session.expirationDate && session.userId
\* (a malformed session of the model is one with an empty userId)
verifyFields(s) == s.userId # ""

\* isValid: verifyFields(session) && tokenExpDate > Date.now() + 20 min
isValid(session, t) == verifyFields(session) /\ session.expirationDate > t + Margin

\* readCache: the parsed file, or a rejection (None) when the file cannot be
\* read or parsed; eraseCache leaves a file that parses to ''
readCache(file, readOk) == IF readOk THEN file ELSE None

\* writeToCache on the session cache file, not awaited by its caller: the
\* write joins the ones in flight
writeToCache(ws, data) == ws \cup {Some(data)}

\* eraseCache on the session cache file, not awaited by its caller
eraseCache(ws) == ws \cup {None}

\* the primary user cache file after a write of data nobody awaits: nothing
\* reads the file again in this process, so the write lands or fails at once
UserFileAfter(data) == {userFile, data}

\* prepareSession up to its first await
NewRun == [stage |-> "load", value |-> None, cached |-> None,
           logins |-> 0, writes |-> 0, erases |-> 0]

\* the promise the field `session` holds
session == Len(runs)

Runs == 1 .. Len(runs)

\* prepareSession after `await this.loadCachedSession()`: a valid cached
\* session sets the headers and is returned; otherwise the cache is erased
\* (not awaited) and POST /login leaves
LoadCachedSession ==
  /\ \E r \in Runs : \E readOk \in BOOLEAN :
       /\ runs[r].stage = "load"
       /\ LET cached == readCache(sessionFile, readOk)
          IN IF IsSome(cached) /\ isValid(Val(cached), now)
               THEN /\ runs' = [runs EXCEPT ![r] = [@ EXCEPT !.stage = "done",
                                                            !.value = cached,
                                                            !.cached = cached]]
                    /\ headers' = Some(Val(cached).token)
                    /\ UNCHANGED <<diskWrites, loginRequests>>
               ELSE /\ runs' = [runs EXCEPT ![r] = [@ EXCEPT !.stage = "login",
                                                            !.cached = cached,
                                                            !.erases = 1,
                                                            !.logins = 1]]
                    /\ diskWrites' = eraseCache(diskWrites)
                    /\ loginRequests' = loginRequests + 1
                    /\ UNCHANGED headers
  /\ UNCHANGED <<now, sessionFile, userFile, awaiting, erasing, primaryUserDevice,
                 discovery, lastRequest>>
  /\ ConnectionFrame

\* a plausible slip: the session of the response is taken without isValid
login_unchecked(r, fresh) ==
  /\ runs' = [runs EXCEPT ![r] = [@ EXCEPT !.stage = "done",
                                           !.value = Some(fresh),
                                           !.writes = 1]]
  /\ diskWrites' = writeToCache(diskWrites, fresh)
  /\ headers' = Some(fresh.token)

\* a plausible slip: the session is written to the cache before it is checked
login_writesFirst(r, fresh) ==
  /\ diskWrites' = writeToCache(diskWrites, fresh)
  /\ IF isValid(fresh, now)
       THEN /\ runs' = [runs EXCEPT ![r] = [@ EXCEPT !.stage = "done",
                                                     !.value = Some(fresh),
                                                     !.writes = 1]]
            /\ headers' = Some(fresh.token)
       ELSE /\ runs' = [runs EXCEPT ![r] = [@ EXCEPT !.stage = "done", !.value = None]]
            /\ UNCHANGED headers

\* login after `await clientAPI.post('/login')` answered with the session
\* fresh, and the rest of prepareSession: an invalid session throws and
\* prepareSession returns null; a valid one is written to the cache (not
\* awaited), set in the headers and returned
login(r, fresh) ==
  IF isValid(fresh, now)
    THEN /\ runs' = [runs EXCEPT ![r] = [@ EXCEPT !.stage = "done",
                                                  !.value = Some(fresh),
                                                  !.writes = 1]]
         /\ diskWrites' = writeToCache(diskWrites, fresh)
         /\ headers' = Some(fresh.token)
    ELSE /\ runs' = [runs EXCEPT ![r] = [@ EXCEPT !.stage = "done", !.value = None]]
         /\ UNCHANGED <<diskWrites, headers>>

\* POST /login answers: with a session of either lifetime, well formed or
\* lacking its userId
LoginResponds ==
  /\ \E r \in Runs : \E ttl \in SessionTtls : \E userId \in {"me", ""} :
       /\ runs[r].stage = "login"
       /\ login(r, [Session(r, now + ttl) EXCEPT !.userId = userId])
  /\ UNCHANGED <<now, sessionFile, userFile, awaiting, erasing, loginRequests,
                 primaryUserDevice, discovery, lastRequest>>
  /\ ConnectionFrame

\* POST /login rejects: login throws, prepareSession logs and returns null
LoginFails ==
  /\ \E r \in Runs :
       /\ runs[r].stage = "login"
       /\ runs' = [runs EXCEPT ![r] = [@ EXCEPT !.stage = "done", !.value = None]]
  /\ UNCHANGED <<now, sessionFile, userFile, diskWrites, awaiting, erasing, headers,
                 loginRequests, primaryUserDevice, discovery, lastRequest>>
  /\ ConnectionFrame

\* a writeFile in flight completes; the ones in flight complete in any order
DiskWriteLands ==
  /\ \E w \in diskWrites :
       /\ diskWrites' = diskWrites \ {w}
       /\ sessionFile' = w
  /\ UNCHANGED <<now, userFile, runs, awaiting, erasing, headers, loginRequests,
                 primaryUserDevice, discovery, lastRequest>>
  /\ ConnectionFrame

\* mkdir or writeFile throws: writeToCache logs and returns
DiskWriteFails ==
  /\ \E w \in diskWrites : diskWrites' = diskWrites \ {w}
  /\ UNCHANGED <<now, sessionFile, userFile, runs, awaiting, erasing, headers,
                 loginRequests, primaryUserDevice, discovery, lastRequest>>
  /\ ConnectionFrame

\* a continuation is waiting on a promise that has resolved
Resumable ==
  \/ \E r \in Runs : awaiting[r] > 0 /\ runs[r].stage = "done"
  \/ primaryUserDevice.stage = "session" /\ runs[primaryUserDevice.run].stage = "done"
  \/ discovery.stage = "device" /\ primaryUserDevice.stage = "done"
  \/ discovery.stage = "session" /\ runs[discovery.run].stage = "done"

\* preserveConnection: the validation period passes and the timer calls
\* validateActiveSession, which awaits the promise `session` holds; a
\* writeFile takes less than a validation period
PreserveConnectionTick ==
  /\ now < MaxTime
  /\ ~Resumable
  /\ diskWrites = {} /\ erasing = 0
  /\ now' = now + 1
  /\ awaiting' = [awaiting EXCEPT ![session] = @ + 1]
  /\ UNCHANGED <<sessionFile, userFile, diskWrites, runs, erasing, headers,
                 loginRequests, primaryUserDevice, discovery, lastRequest>>
  /\ ConnectionFrame

\* a plausible slip: every validation reauthenticates
validateActiveSession_always(activeSession) == TRUE

\* a plausible slip: a session inside the margin is left until it has expired
validateActiveSession_expiredOnly(activeSession) ==
  ~IsSome(activeSession) \/ Val(activeSession).expirationDate <= now

\* a plausible slip: a null session is left alone, only an invalid one renewed
validateActiveSession_sessionOnly(activeSession) ==
  IsSome(activeSession) /\ ~isValid(Val(activeSession), now)

\* validateActiveSession after `await this.session`: whether it reauthenticates
validateActiveSession(activeSession) ==
  ~IsSome(activeSession) \/ ~isValid(Val(activeSession), now)

\* validateActiveSession resumes with the session of the promise it awaited;
\* reauthenticate starts its eraseCache and awaits it
ValidateActiveSession ==
  /\ \E r \in Runs :
       /\ awaiting[r] > 0
       /\ runs[r].stage = "done"
       /\ awaiting' = [awaiting EXCEPT ![r] = @ - 1]
       /\ erasing' = IF validateActiveSession(runs[r].value) THEN erasing + 1 ELSE erasing
  /\ UNCHANGED <<now, sessionFile, userFile, diskWrites, runs, headers, loginRequests,
                 primaryUserDevice, discovery, lastRequest>>
  /\ ConnectionFrame

\* a plausible slip: a reauthentication prepares the primary user again
Reauthenticate_reloadsUser ==
  /\ erasing > 0
  /\ Len(runs) + 1 \in DOMAIN awaiting
  /\ \E erased \in BOOLEAN : sessionFile' = IF erased THEN None ELSE sessionFile
  /\ erasing' = erasing - 1
  /\ runs' = Append(runs, NewRun)
  /\ primaryUserDevice' = [stage |-> "load", run |-> 0, value |-> None, session |-> None]
  /\ UNCHANGED <<now, userFile, diskWrites, awaiting, headers, loginRequests,
                 discovery, lastRequest>>
  /\ ConnectionFrame

\* reauthenticate after `await this.eraseCache(...)`, whose write landed or
\* failed silently: this.session = this.prepareSession()
Reauthenticate ==
  /\ erasing > 0
  /\ Len(runs) + 1 \in DOMAIN awaiting
  /\ \E erased \in BOOLEAN : sessionFile' = IF erased THEN None ELSE sessionFile
  /\ erasing' = erasing - 1
  /\ runs' = Append(runs, NewRun)
  /\ UNCHANGED <<now, userFile, diskWrites, awaiting, headers, loginRequests,
                 primaryUserDevice, discovery, lastRequest>>
  /\ ConnectionFrame

\* verifyDeviceFor: null for no user (null, or the '' of an erased file) and
\* for a device with an empty id or side, the device otherwise; reading the
\* id of a currentDevice that is not there throws a TypeError
verifyDeviceFor(user) ==
  IF ~IsSome(user) THEN [threw |-> FALSE, device |-> None]
  ELSE IF ~IsSome(Val(user).currentDevice) THEN [threw |-> TRUE, device |-> None]
  ELSE IF Val(Val(user).currentDevice).id = "" \/ Val(Val(user).currentDevice).side = ""
    THEN [threw |-> FALSE, device |-> None]
  ELSE [threw |-> FALSE, device |-> Val(user).currentDevice]

\* preparePrimaryUser after `await this.loadCachedUser()`: the device of a
\* cached user is returned; without one the cache is erased (not awaited)
\* and fetchPrimaryUser awaits the promise `session` holds; an error thrown
\* by verifyDeviceFor is caught and null returned
LoadCachedUser ==
  /\ primaryUserDevice.stage = "load"
  /\ \E readOk \in BOOLEAN :
       LET cachedUser == readCache(userFile, readOk)
           verified == verifyDeviceFor(cachedUser)
       IN IF verified.threw
            THEN /\ primaryUserDevice' = [primaryUserDevice EXCEPT !.stage = "done",
                                                                   !.value = None]
                 /\ UNCHANGED userFile
          ELSE IF IsSome(verified.device)
            THEN /\ primaryUserDevice' = [primaryUserDevice EXCEPT !.stage = "done",
                                                                   !.value = verified.device]
                 /\ UNCHANGED userFile
            ELSE /\ primaryUserDevice' = [primaryUserDevice EXCEPT !.stage = "session",
                                                                   !.run = session]
                 /\ userFile' \in UserFileAfter(None)
  /\ UNCHANGED <<now, sessionFile, diskWrites, runs, awaiting, erasing, headers,
                 loginRequests, discovery, lastRequest>>
  /\ ConnectionFrame

\* a plausible slip: the profile is fetched whatever the session resolved to
FetchPrimaryUser_unguarded ==
  /\ primaryUserDevice.stage = "session"
  /\ runs[primaryUserDevice.run].stage = "done"
  /\ primaryUserDevice' = [primaryUserDevice EXCEPT
                             !.stage = "fetch",
                             !.session = runs[primaryUserDevice.run].value]
  /\ UNCHANGED <<now, sessionFile, userFile, diskWrites, runs, awaiting, erasing,
                 headers, loginRequests, discovery, lastRequest>>
  /\ ConnectionFrame

\* fetchPrimaryUser after `await this.session`: without a session it throws
\* and preparePrimaryUser returns null; with one, GET /users/me leaves
FetchPrimaryUser ==
  /\ primaryUserDevice.stage = "session"
  /\ runs[primaryUserDevice.run].stage = "done"
  /\ LET s == runs[primaryUserDevice.run].value
     IN primaryUserDevice' =
          IF IsSome(s) THEN [primaryUserDevice EXCEPT !.stage = "fetch", !.session = s]
          ELSE [primaryUserDevice EXCEPT !.stage = "done", !.value = None]
  /\ UNCHANGED <<now, sessionFile, userFile, diskWrites, runs, awaiting, erasing,
                 headers, loginRequests, discovery, lastRequest>>
  /\ ConnectionFrame

\* fetchPrimaryUser after `await clientAPI.get('/users/me')`: a user with a
\* device is written to the cache (not awaited) and its device returned; a
\* rejection or a user without a device makes preparePrimaryUser return null
UsersMeResponds ==
  /\ primaryUserDevice.stage = "fetch"
  /\ \E user \in {None, Some(serverUser)} :
       LET found == verifyDeviceFor(user).device
       IN /\ primaryUserDevice' = [primaryUserDevice EXCEPT !.stage = "done",
                                                            !.value = found]
          /\ userFile' \in IF IsSome(found) THEN UserFileAfter(user) ELSE {userFile}
  /\ UNCHANGED <<now, sessionFile, diskWrites, runs, awaiting, erasing, headers,
                 loginRequests, discovery, lastRequest>>
  /\ ConnectionFrame

\* a plausible slip: the connection is made when either credential is there
hasCredentials_either(cfg) == cfg.email \/ cfg.password

\* `this.config['email'] && this.config['password']`
hasCredentials(cfg) == cfg.email /\ cfg.password

\* the constructor of the platform, which homebridge calls once: with both
\* credentials it constructs the connection, whose field initialisers call
\* prepareSession and preparePrimaryUser; without them it logs the error
PlatformConstructor ==
  /\ runs = <<>> /\ configErrors = 0
  /\ IF hasCredentials(config)
       THEN /\ runs' = <<NewRun>>
            /\ primaryUserDevice' = [primaryUserDevice EXCEPT !.stage = "load"]
            /\ UNCHANGED configErrors
       ELSE /\ configErrors' = configErrors + 1
            /\ UNCHANGED <<runs, primaryUserDevice>>
  /\ UNCHANGED <<now, sessionFile, userFile, diskWrites, awaiting, erasing, headers,
                 loginRequests, discovery, lastRequest>>
  /\ UNCHANGED <<config, restored, serverUser>>
  /\ UNCHANGED <<mapperVars, accVars, platVars, thermoVars, writeVars, peekVars,
                 harnessVars>>

\* homebridge emits didFinishLaunching, the handler the constructor has
\* registered runs: discoverDevices awaits primaryUserDevice
DidFinishLaunching ==
  /\ runs # <<>>
  /\ discovery.stage = "idle"
  /\ discovery' = [discovery EXCEPT !.stage = "device"]
  /\ UNCHANGED <<now, sessionFile, userFile, diskWrites, runs, awaiting, erasing,
                 headers, loginRequests, primaryUserDevice, lastRequest>>
  /\ ConnectionFrame

\* discoverDevices after `await this.connection?.primaryUserDevice`: it
\* awaits the promise `session` holds
DiscoverAwaitsSession ==
  /\ discovery.stage = "device"
  /\ primaryUserDevice.stage = "done"
  /\ discovery' = [discovery EXCEPT !.stage = "session", !.run = session]
  /\ UNCHANGED <<now, sessionFile, userFile, diskWrites, runs, awaiting, erasing,
                 headers, loginRequests, primaryUserDevice, lastRequest>>
  /\ ConnectionFrame

\* `!primaryUserDevice || !session` (the connection exists when the
\* handler runs)
discoverDevicesThrows(currentDevice, s) == ~IsSome(currentDevice) \/ ~IsSome(s)

\* a plausible slip: every side of a shared bed is the owner's
eightSleepDevices_allOwners(currentDevice) ==
  IF currentDevice.side = "solo"
    THEN << [side |-> "solo", isOwner |-> TRUE] >>
    ELSE << [side |-> "left", isOwner |-> TRUE], [side |-> "right", isOwner |-> TRUE] >>

\* the EightSleepDeviceContext list of a device: its sides and whose they are
eightSleepDevices(currentDevice) ==
  IF currentDevice.side = "solo"
    THEN << [side |-> "solo", isOwner |-> TRUE] >>
    ELSE << [side |-> "left", isOwner |-> currentDevice.side = "left"],
            [side |-> "right", isOwner |-> currentDevice.side = "right"] >>

\* `guest-${device.sharedDeviceId}-${device.side}`
guestId(sharedDeviceId, side) == "guest-" \o sharedDeviceId \o "-" \o side

\* accessory.context.device of one side, as the loop leaves it
contextDevice(d, currentDevice, s) ==
  [side |-> d.side, isOwner |-> d.isOwner, sharedDeviceId |-> currentDevice.id,
   userId |-> IF d.isOwner THEN s.userId ELSE guestId(currentDevice.id, d.side)]

\* the discovery that has not run
NoDiscovery ==
  [stage |-> "idle", run |-> 0, session |-> None, platformClient |-> None,
   accessories |-> <<>>, registered |-> {}]

\* a plausible slip: a discovery that lacks a device or a session starts over
DiscoverDevices_retries ==
  /\ discovery.stage = "session"
  /\ runs[discovery.run].stage = "done"
  /\ LET s == runs[discovery.run].value
         currentDevice == primaryUserDevice.value
     IN discovery' =
          IF discoverDevicesThrows(currentDevice, s)
            THEN [discovery EXCEPT !.stage = "device"]
            ELSE LET ds == eightSleepDevices(Val(currentDevice))
                 IN [discovery EXCEPT
                       !.stage = "built",
                       !.session = s,
                       !.platformClient = Some(Val(currentDevice).id),
                       !.accessories = [k \in DOMAIN ds |->
                                          contextDevice(ds[k], Val(currentDevice), Val(s))],
                       !.registered = {ds[k].side : k \in DOMAIN ds} \ restored]
  /\ UNCHANGED <<now, sessionFile, userFile, diskWrites, runs, awaiting, erasing,
                 headers, loginRequests, primaryUserDevice, lastRequest>>
  /\ ConnectionFrame

\* discoverDevices after `await this.connection?.session`: without a device
\* or a session it throws; with both it constructs the platform adapter and
\* one EightSleepThermostatAccessory for each side, and registers the ones
\* homebridge had not restored
DiscoverDevices ==
  /\ discovery.stage = "session"
  /\ runs[discovery.run].stage = "done"
  /\ LET s == runs[discovery.run].value
         currentDevice == primaryUserDevice.value
     IN discovery' =
          IF discoverDevicesThrows(currentDevice, s)
            THEN [discovery EXCEPT !.stage = "failed"]
            ELSE LET ds == eightSleepDevices(Val(currentDevice))
                 IN [discovery EXCEPT
                       !.stage = "built",
                       !.session = s,
                       !.platformClient = Some(Val(currentDevice).id),
                       !.accessories = [k \in DOMAIN ds |->
                                          contextDevice(ds[k], Val(currentDevice), Val(s))],
                       !.registered = {ds[k].side : k \in DOMAIN ds} \ restored]
  /\ UNCHANGED <<now, sessionFile, userFile, diskWrites, runs, awaiting, erasing,
                 headers, loginRequests, primaryUserDevice, lastRequest>>
  /\ ConnectionFrame

\* Client.get / Client.put of an adapter: the request leaves at once, with
\* the headers the client has
ClientRequest ==
  /\ discovery.stage = "built"
  /\ lastRequest' = Some([pending |-> runs[session].stage # "done"])
  /\ UNCHANGED <<now, sessionFile, userFile, diskWrites, runs, awaiting, erasing,
                 headers, loginRequests, primaryUserDevice, discovery>>
  /\ ConnectionFrame

NextSession ==
  \/ LoadCachedSession
  \/ LoginResponds
  \/ LoginFails
  \/ DiskWriteLands
  \/ DiskWriteFails
  \/ PreserveConnectionTick
  \/ ValidateActiveSession
  \/ Reauthenticate
  \/ LoadCachedUser
  \/ FetchPrimaryUser
  \/ UsersMeResponds
  \/ DidFinishLaunching
  \/ DiscoverAwaitsSession
  \/ DiscoverDevices
  \/ ClientRequest

\* no EightSleepConnection exists
ConnectionAbsent ==
  /\ now = 0
  /\ sessionFile = None
  /\ userFile = None
  /\ diskWrites = {}
  /\ runs = <<>>
  /\ awaiting = [r \in 1 .. MaxRuns |-> 0]
  /\ erasing = 0
  /\ headers = None
  /\ loginRequests = 0
  /\ primaryUserDevice = [stage |-> "absent", run |-> 0, value |-> None, session |-> None]
  /\ discovery = NoDiscovery
  /\ lastRequest = None

\* after the constructor of EightSleepConnection: the field initialisers have
\* called prepareSession and preparePrimaryUser, the validation timer runs;
\* the cache files are as an earlier process left them; the process may
\* call prepareSession `promises` times
ConnectionWith(promises) ==
  /\ now = 0
  /\ sessionFile \in {None, Some(Session(0, ShortTtl)), Some(Session(0, LongTtl))}
  /\ userFile \in {None, Some(PrimaryUser(Some(CurrentDevice)))}
  /\ diskWrites = {}
  /\ runs = <<NewRun>>
  /\ awaiting = [r \in 1 .. promises |-> 0]
  /\ erasing = 0
  /\ headers = None
  /\ loginRequests = 0
  /\ primaryUserDevice = [stage |-> "load", run |-> 0, value |-> None, session |-> None]
  /\ discovery = NoDiscovery
  /\ lastRequest = None

ConnectionConstructed == ConnectionWith(MaxRuns)

\* a platform with both credentials, nothing restored, whose account has
\* the left side of a shared bed
Configured ==
  /\ config = [email |-> TRUE, password |-> TRUE]
  /\ configErrors = 0
  /\ restored = {}
  /\ serverUser = PrimaryUser(Some(CurrentDevice))

\* no call of checkForUpdates has been made
PeekIdle ==
  /\ peeking = NoPeek
  /\ peeked = None
  /\ reading = [s \in BedSides |-> 0]
  /\ levelRead = [s \in BedSides |-> None]

\* the tables before generateMaps has run
MapperUnbuilt ==
  /\ lvl = MinLevel
  /\ lvlsToTempMap = <<>>
  /\ tempsToLvlMap = <<>>
  /\ celsiusToF = <<>>
  /\ fahrenheitToC = <<>>
  /\ asked = None
  /\ answer = None

\* the mapper is built when the module is loaded, before any adapter exists
InitMapper ==
  /\ MapperUnbuilt
  /\ AccessoryAbsent
  /\ PlatformAbsent
  /\ ConnectionAbsent
  /\ ThermostatAbsent
  /\ PeekIdle
  /\ setTarget = NoSetTarget
  /\ Configured
  /\ constructed = "none"
  /\ restarted = FALSE

SpecMapper == InitMapper /\ [][NextMapper]_vars

\* one polling cache, or the publish loop of one accessory, has just been
\* constructed
InitPolling ==
  /\ MapperUnbuilt
  /\ ConnectionAbsent
  /\ PeekIdle
  /\ setTarget = NoSetTarget
  /\ Configured
  /\ restarted = FALSE
  /\ \/ /\ constructed = "accessory"
        /\ AccessoryConstructed /\ PlatformAbsent /\ ThermostatAbsent
     \/ /\ constructed = "platform"
        /\ PlatformConstructed /\ AccessoryAbsent /\ ThermostatAbsent
     \/ /\ constructed = "thermostat"
        /\ ThermostatConstructed /\ AccessoryAbsent /\ PlatformAbsent

SpecPolling == InitPolling /\ [][NextPolling]_vars

\* a polling cache of either class, its reads and its timer
NextStandby ==
  \/ RefreshState
  \/ GetActive
  \/ GetSucceeds
  \/ GetFails
  \/ PlatformRefreshState
  \/ GetCurrentLevelForSide
  \/ DeviceGetSucceeds
  \/ DeviceGetFails
  \/ Advance

\* one polling cache has just been constructed
InitStandby ==
  /\ MapperUnbuilt
  /\ ConnectionAbsent
  /\ ThermostatAbsent
  /\ PeekIdle
  /\ setTarget = NoSetTarget
  /\ Configured
  /\ restarted = FALSE
  /\ \/ constructed = "accessory" /\ AccessoryConstructed /\ PlatformAbsent
     \/ constructed = "platform" /\ PlatformConstructed /\ AccessoryAbsent

\* time passes and a due setInterval callback runs; a request is answered
\* or fails (the requests in flight are bounded in the model, and a tick
\* takes a free one)
SpecStandby ==
  /\ InitStandby
  /\ [][NextStandby]_vars
  /\ WF_vars(Advance)
  /\ WF_vars(RefreshState)
  /\ WF_vars(PlatformRefreshState)
  /\ WF_vars(GetSucceeds \/ GetFails)
  /\ WF_vars(DeviceGetSucceeds \/ DeviceGetFails)

\* a polling cache whose callers only read: the controller's reads, the
\* refresh ticks, and the publish loop's checkForUpdates
NextPeek ==
  \/ RefreshState
  \/ GetActive
  \/ GetSucceeds
  \/ GetFails
  \/ ServerChange
  \/ CheckForUpdates
  \/ PlatformRefreshState
  \/ GetCurrentLevelForSide
  \/ DeviceGetSucceeds
  \/ DeviceGetFails
  \/ DeviceChange
  \/ PlatformCheckForUpdates
  \/ Advance

\* one polling cache has just been constructed, of either class
InitPeek ==
  /\ MapperUnbuilt
  /\ ConnectionAbsent
  /\ ThermostatAbsent
  /\ PeekIdle
  /\ setTarget = NoSetTarget
  /\ Configured
  /\ restarted = FALSE
  /\ \/ constructed = "accessory" /\ AccessoryConstructed /\ PlatformAbsent
     \/ constructed = "platform" /\ PlatformConstructed /\ AccessoryAbsent

SpecPeek == InitPeek /\ [][NextPeek]_vars

\* the shared-device cache and the accessories of the two sides reading it
NextShared ==
  \/ PlatformRefreshState
  \/ AccessoryReadsLevel
  \/ DeviceGetSucceeds
  \/ DeviceGetFails
  \/ DeviceChange
  \/ Advance

\* the platform adapter has just been constructed
InitShared ==
  /\ MapperUnbuilt
  /\ ConnectionAbsent
  /\ ThermostatAbsent
  /\ PeekIdle
  /\ setTarget = NoSetTarget
  /\ Configured
  /\ restarted = FALSE
  /\ constructed = "platform"
  /\ PlatformConstructed
  /\ AccessoryAbsent

SpecShared == InitShared /\ [][NextShared]_vars

\* the platform has constructed its connection; no adapter exists yet
InitSession ==
  /\ MapperUnbuilt
  /\ AccessoryAbsent
  /\ PlatformAbsent
  /\ ThermostatAbsent
  /\ PeekIdle
  /\ setTarget = NoSetTarget
  /\ Configured
  /\ ConnectionConstructed
  /\ constructed = "none"
  /\ restarted = FALSE

SpecSession == InitSession /\ [][NextSession]_vars

\* the session of the connection alone: prepareSession, the validation
\* timer and the reauthentications it starts
NextValidation ==
  \/ LoadCachedSession
  \/ LoginResponds
  \/ LoginFails
  \/ DiskWriteLands
  \/ DiskWriteFails
  \/ PreserveConnectionTick
  \/ ValidateActiveSession
  \/ Reauthenticate

\* the platform has constructed its connection; the process is followed
\* for one call of prepareSession more, so that two validations that
\* awaited one promise can both reauthenticate
InitValidation ==
  /\ MapperUnbuilt
  /\ AccessoryAbsent
  /\ PlatformAbsent
  /\ ThermostatAbsent
  /\ PeekIdle
  /\ setTarget = NoSetTarget
  /\ Configured
  /\ ConnectionWith(MaxRuns + 1)
  /\ constructed = "none"
  /\ restarted = FALSE

SpecValidation == InitValidation /\ [][NextValidation]_vars

\* the start of the plugin, up to the end of device discovery
NextStartup ==
  \/ PlatformConstructor
  \/ LoadCachedSession
  \/ LoginResponds
  \/ LoginFails
  \/ DiskWriteLands
  \/ DiskWriteFails
  \/ LoadCachedUser
  \/ FetchPrimaryUser
  \/ UsersMeResponds
  \/ DidFinishLaunching
  \/ DiscoverAwaitsSession
  \/ DiscoverDevices

\* homebridge has loaded the plugin and not yet constructed the platform;
\* the cache files hold what an earlier process, or anything else, left there
InitStartup ==
  /\ MapperUnbuilt
  /\ AccessoryAbsent
  /\ PlatformAbsent
  /\ ThermostatAbsent
  /\ PeekIdle
  /\ setTarget = NoSetTarget
  /\ constructed = "none"
  /\ restarted = FALSE
  /\ config \in [email : BOOLEAN, password : BOOLEAN]
  /\ configErrors = 0
  /\ restored \in SUBSET Sides
  /\ serverUser \in Users
  /\ now = 0
  /\ sessionFile \in {None, Some(Session(0, ShortTtl)), Some(Session(0, LongTtl))}
  /\ userFile \in {None} \cup {Some(u) : u \in Users}
  /\ diskWrites = {}
  /\ runs = <<>>
  /\ awaiting = [r \in 1 .. MaxRuns |-> 0]
  /\ erasing = 0
  /\ headers = None
  /\ loginRequests = 0
  /\ primaryUserDevice = [stage |-> "absent", run |-> 0, value |-> None, session |-> None]
  /\ discovery = NoDiscovery
  /\ lastRequest = None

SpecStartup == InitStartup /\ [][NextStartup]_vars

\* an accessory whose target temperature a controller sets: the mapper is
\* built, the accessory constructed, and its adapter's requests answered
NextWrite ==
  \/ GenerateMapsStep
  \/ ThermostatConstructor
  \/ HandleTargetTemperatureSet
  \/ PutSucceeds
  \/ PutFails
  \/ GetSucceeds
  \/ GetFails
  \/ UpdateCurrentHCState

\* the module of the mapper is being loaded; nothing else exists
InitWrite ==
  /\ MapperUnbuilt
  /\ AccessoryAbsent
  /\ PlatformAbsent
  /\ ConnectionAbsent
  /\ ThermostatAbsent
  /\ PeekIdle
  /\ setTarget = NoSetTarget
  /\ Configured
  /\ constructed = "none"
  /\ restarted = FALSE

SpecWrite == InitWrite /\ [][NextWrite]_vars

\* an accessory whose controller sets the target temperature and the mode
\* while its publish loop runs
NextPublish ==
  \/ GenerateMapsStep
  \/ ThermostatConstructor
  \/ HandleTargetTemperatureSet
  \/ HandleTargetHeatingCoolingStateSet
  \/ PutSucceeds
  \/ PutFails
  \/ TurnSucceeds
  \/ TurnFails
  \/ GetSucceeds
  \/ GetFails
  \/ UpdateCurrentHCState
  \/ ThermostatRefreshState
  \/ ThermostatAdvance

\* the module of the mapper is being loaded; nothing else exists
InitPublish ==
  /\ MapperUnbuilt
  /\ AccessoryAbsent
  /\ PlatformAbsent
  /\ ConnectionAbsent
  /\ ThermostatAbsent
  /\ PeekIdle
  /\ setTarget = NoSetTarget
  /\ Configured
  /\ constructed = "none"
  /\ restarted = FALSE

SpecPublish == InitPublish /\ [][NextPublish]_vars

\* levels the server and the device hold when the reconciler is examined:
\* the lowest levels of 68, 69, 95, 96, 97 and 98 degrees Fahrenheit, and a
\* second level of 96
ReconciledLevels == {-58, -54, 44, 47, 48, 50, 54}

\* the publish loop of the left accessory over the levels its two adapters
\* return, mapped by the tables generateMaps has built
NextReconcile ==
  \/ GenerateMapsStep
  \/ ThermostatConstructor
  \/ GetSucceeds
  \/ DeviceGetSucceeds
  \/ ThermostatRefreshState
  \/ ThermostatAdvance

\* the module of the mapper is being loaded; the platform has constructed
\* its adapter, whose first GET is in flight; no accessory exists yet
InitReconcile ==
  /\ MapperUnbuilt
  /\ ConnectionAbsent
  /\ ThermostatAbsent
  /\ PeekIdle
  /\ setTarget = NoSetTarget
  /\ Configured
  /\ constructed = "none"
  /\ restarted = FALSE
  /\ reqs = [i \in Slots |-> FreeSlot]
  /\ currentUserSettings = Resolved(None)
  /\ sinceActive = 0
  /\ refreshInterval = None
  /\ timersLive = 0
  /\ lastGood = None
  /\ lastWrite = None
  /\ srv \in [currentLevel : ReconciledLevels, type : {DeviceModeOn, DeviceModeOff}]
  /\ platformReqs = [i \in Slots |-> IF i = 1 THEN NewGet ELSE FreeSlot]
  /\ sharedDeviceSettings = Pending(1)
  /\ platformSinceActive = 0
  /\ platformRefreshInterval = Some(Rho)
  /\ platformTimersLive = setInterval(0)
  /\ device \in [leftHeatingLevel : ReconciledLevels, rightHeatingLevel : SomeLevels]

SpecReconcile == InitReconcile /\ [][NextReconcile]_vars

(***************************************************************************)
(*                 Properties of the TwoWayTempMapper                      *)
(***************************************************************************)

\* the levels mapped so far whose temperature is degF
LevelsOf(degF) == {L \in DOMAIN lvlsToTempMap : lvlsToTempMap[L] = degF}

\* C8: tie-break determinism. For every temperature T the forward map has
\* produced, fahrenheitToLevel(T) is the lowest level whose temperature is T:
\* of two levels L1 < L2 with the same temperature it is never L2.
C8_TieBreakLowestLevel ==
  \A L \in DOMAIN lvlsToTempMap :
    LET T == lvlsToTempMap[L]
    IN /\ IsSome(fahrenheitToLevel(T))
       /\ Val(fahrenheitToLevel(T)) \in LevelsOf(T)
       /\ \A L1 \in LevelsOf(T) : Val(fahrenheitToLevel(T)) <= L1

\* C8 witness: the tables are built, a caller asked for the level of a
\* temperature that two or more levels produce, and got the lowest of them.
C8_Witness ==
  /\ MapsBuilt
  /\ IsSome(asked) /\ Val(asked).op = "fahrenheitToLevel"
  /\ IsSome(answer)
  /\ \E L2 \in LevelsOf(Val(asked).arg) : Val(answer) < L2

\* C9: round trip. Once the tables are built, for every level L in
\* [-100,100] levelToFahrenheit(fahrenheitToLevel(levelToFahrenheit(L)))
\* is defined and equals levelToFahrenheit(L).
C9_RoundTrip ==
  MapsBuilt =>
    \A L \in Levels :
      LET T == levelToFahrenheit(L)
      IN /\ IsSome(T)
         /\ IsSome(fahrenheitToLevel(Val(T)))
         /\ levelToFahrenheit(Val(fahrenheitToLevel(Val(T)))) = T

\* C9 witness: a caller mapped the temperature of some level L back and got
\* a different level (not level-stable) that has the same temperature.
C9_Witness ==
  /\ MapsBuilt
  /\ IsSome(asked) /\ Val(asked).op = "fahrenheitToLevel"
  /\ IsSome(answer)
  /\ \E L \in Levels :
       /\ levelToFahrenheit(L) = Some(Val(asked).arg)
       /\ Val(answer) # L
       /\ levelToFahrenheit(Val(answer)) = levelToFahrenheit(L)

\* C10: monotonicity. For all mapped levels L1 <= L2 the temperature of L1
\* is at most the temperature of L2, the segment boundaries included.
C10_Monotone ==
  \A L1 \in DOMAIN lvlsToTempMap :
    \A L2 \in DOMAIN lvlsToTempMap :
      L1 <= L2 => lvlsToTempMap[L1] <= lvlsToTempMap[L2]

\* C10 witness: the tables are built over both segment boundaries
\* (-89/-88 and -1/0/1) and a caller read the temperature of level 0.
C10_Witness ==
  /\ MapsBuilt
  /\ {cooling_level_start, cooling_level_start + 1, cooling_level_end, 0, 1}
       \subseteq DOMAIN lvlsToTempMap
  /\ asked = Some([op |-> "levelToFahrenheit", arg |-> 0])
  /\ answer = levelToFahrenheit(cooling_level_end)

(***************************************************************************)
(*                  Properties of the polling caches                       *)
(***************************************************************************)

\* this step issues a GET of the user settings
AccessoryFetchIssued == \E i \in Slots : reqs[i].kind # "get" /\ reqs'[i].kind = "get"

\* this step issues a GET of the shared device settings
PlatformFetchIssued ==
  \E i \in Slots : platformReqs[i].kind # "get" /\ platformReqs'[i].kind = "get"

\* C1 as stated: once the inactivity timeout has elapsed since the last
\* getActive(), no fetch is issued until the next getActive(): every fetch is
\* issued at most Tau after the last activity.
C1_NoFetchAfterTau ==
  [][ /\ AccessoryFetchIssued => sinceActive' <= Tau
      /\ PlatformFetchIssued => platformSinceActive' <= Tau ]_vars

\* C1 as amended (polling life cycle): an activity on a cache in standby
\* issues a fetch at once and starts the timer; while the timer runs its next
\* tick is at most Rho away and every tick issues a fetch; the tick that finds
\* the last activity more than Tau back still fetches and then cancels the
\* timer, so no fetch is issued later than Tau + Rho after the last activity.
C1_PollingLifecycle ==
  [][ /\ AccessoryFetchIssued => sinceActive' <= Tau + Rho
      /\ PlatformFetchIssued => platformSinceActive' <= Tau + Rho
      /\ (constructed = "accessory" /\ refreshInterval = None /\ sinceActive' = 0)
           => (AccessoryFetchIssued /\ refreshInterval' = Some(Rho))
      /\ (constructed = "platform" /\ platformRefreshInterval = None
            /\ platformSinceActive' = 0)
           => (PlatformFetchIssued /\ platformRefreshInterval' = Some(Rho))
      /\ (refreshInterval = Some(0) /\ refreshInterval' # Some(0)) => AccessoryFetchIssued
      /\ (platformRefreshInterval = Some(0) /\ platformRefreshInterval' # Some(0))
           => PlatformFetchIssued
      /\ IsSome(refreshInterval') => Val(refreshInterval') \in 0 .. Rho
      /\ IsSome(platformRefreshInterval') => Val(platformRefreshInterval') \in 0 .. Rho
      /\ (refreshInterval' = None /\ constructed = "accessory") => sinceActive' > Tau
      /\ (platformRefreshInterval' = None /\ constructed = "platform")
           => platformSinceActive' > Tau ]_vars

\* C1 witness: a cache that was brought back from standby by a getActive()
\* has polled until the tick Tau + Rho after its last activity, which issued
\* its fetch (still pending) and cancelled the timer.
C1_Witness ==
  /\ restarted
  /\ \/ /\ constructed = "accessory"
        /\ refreshInterval = None /\ sinceActive = Tau + Rho
        /\ IsPending(currentUserSettings) /\ lastWrite = None
     \/ /\ constructed = "platform"
        /\ platformRefreshInterval = None /\ platformSinceActive = Tau + Rho
        /\ IsPending(sharedDeviceSettings)

\* C2: when the fetch the cache holds completes, the cache holds the fresh
\* response or, when the fetch failed, the value it held before (the last
\* settings a request brought in), which later reads then return.
C2_FailedFetchKeepsValue ==
  [][ \A i \in Slots :
        (/\ currentUserSettings = Pending(i)
         /\ reqs[i].kind = "get" /\ reqs'[i].kind = "free"
         /\ IsSome(lastGood))
        => \/ currentUserSettings' = Resolved(Some(srv))
           \/ currentUserSettings' = Resolved(lastGood) ]_vars

\* C3: when updateUserTargetLevel(L) completes with a response of the server,
\* the held settings are that response, and a read of the target level
\* returns the level A the server acknowledged, whatever L was.
C3_WriteAckIsHeld ==
  [][ \A i \in Slots :
        (/\ reqs[i].kind = "put" /\ reqs'[i] # reqs[i]
         /\ IsSome(lastWrite') /\ IsSome(Val(lastWrite').response))
        => /\ currentUserSettings' = Resolved(Val(lastWrite').response)
           /\ ReadTargetLevel' = Val(Val(lastWrite').response).currentLevel
           /\ Val(lastWrite').requested = reqs[i].level ]_vars

\* C3 witness: a write of level 50 was acknowledged with level 48 and the
\* cache holds the acknowledged settings: a read returns 48.
C3_Witness ==
  /\ IsSome(lastWrite)
  /\ Val(lastWrite).requested = 50
  /\ IsSome(Val(lastWrite).response)
  /\ Val(Val(lastWrite).response).currentLevel = 48
  /\ currentUserSettings = Resolved(Val(lastWrite).response)
  /\ ReadTargetLevel = 48

\* C4: a GET that was in flight when a write completed is never the promise
\* the cache holds, and when it resolves later the held value stays what it
\* was: the acknowledged response, or whatever a later fetch or write put
\* there.
C4_AckNotClobbered ==
  [][ \A i \in Slots :
        /\ (reqs'[i].kind = "get" /\ reqs'[i].beforeAck)
             => currentUserSettings' # Pending(i)
        /\ (reqs[i].kind = "get" /\ reqs[i].beforeAck /\ reqs'[i].kind = "free")
             => currentUserSettings' = currentUserSettings ]_vars

\* C4 witness: a GET that was in flight when a write was acknowledged has
\* resolved after it, the server's settings have changed since the
\* acknowledgement, and the cache still holds the acknowledged response.
C4_Witness ==
  /\ IsSome(lastWrite)
  /\ Val(lastWrite).lateGet
  /\ IsSome(Val(lastWrite).response)
  /\ currentUserSettings = Resolved(Val(lastWrite).response)
  /\ Val(lastWrite).response # Some(srv)
  /\ \A i \in Slots : reqs[i].kind = "free"

\* a call of checkForUpdates is made in this step
PeekCalled == peeking = NoPeek /\ (peeking' # NoPeek \/ peeked' # peeked)

\* a call of checkForUpdates that was awaiting returns in this step
PeekResumed == peeking # NoPeek /\ peeking' = NoPeek

\* C12: peek (checkForUpdates on either adapter) never changes the
\* last-active time, never starts or cancels a timer and never issues a
\* fetch, whether the cache is polling or in standby; it returns the value
\* of the promise the cache held when it was called, at once when that
\* promise has resolved and otherwise when it resolves.
C12_PeekIsPassive ==
  [][ /\ PeekCalled =>
           /\ UNCHANGED <<accVars, platVars>>
           /\ peeking' # NoPeek
                => /\ peeked' = peeked
                   /\ \/ constructed = "accessory"
                         /\ currentUserSettings = Pending(peeking'.slot)
                      \/ constructed = "platform"
                         /\ sharedDeviceSettings = Pending(peeking'.slot)
           /\ (peeking' = NoPeek /\ constructed = "accessory")
                => /\ ~IsPending(currentUserSettings)
                   /\ Val(peeked').targetLevel = LevelOf(currentUserSettings.value)
           /\ (peeking' = NoPeek /\ constructed = "platform")
                => /\ ~IsPending(sharedDeviceSettings)
                   /\ \/ /\ IsSome(sharedDeviceSettings.value)
                         /\ Val(peeked').currentLevel \in
                              {Val(sharedDeviceSettings.value).leftHeatingLevel,
                               Val(sharedDeviceSettings.value).rightHeatingLevel}
                      \/ /\ ~IsSome(sharedDeviceSettings.value)
                         /\ Val(peeked').currentLevel = 0
      /\ PeekResumed =>
           /\ UNCHANGED <<sinceActive, refreshInterval, platformSinceActive,
                          platformRefreshInterval>>
           /\ ~AccessoryFetchIssued /\ ~PlatformFetchIssued
           /\ constructed = "accessory"
                => /\ reqs[peeking.slot].kind = "get" /\ reqs'[peeking.slot].kind = "free"
                   /\ Val(peeked').targetLevel \in {0, srv.currentLevel}
           /\ constructed = "platform"
                => /\ platformReqs[peeking.slot].kind = "get"
                   /\ platformReqs'[peeking.slot].kind = "free"
                   /\ Val(peeked').currentLevel \in
                        {0, device.leftHeatingLevel, device.rightHeatingLevel} ]_vars

\* C12 witness: a cache that went into standby was peeked there and
\* returned the settings it holds; it is still in standby, with no timer and
\* no request in flight.
C12_Witness ==
  /\ IsSome(peeked) /\ peeking = NoPeek
  /\ \/ /\ constructed = "accessory"
        /\ refreshInterval = None /\ sinceActive > Tau
        /\ \A i \in Slots : reqs[i].kind = "free"
        /\ IsSome(currentUserSettings.value)
        /\ Val(peeked) = checkForUpdates(currentUserSettings.value)
     \/ /\ constructed = "platform"
        /\ platformRefreshInterval = None /\ platformSinceActive > Tau
        /\ \A i \in Slots : platformReqs[i].kind = "free"
        /\ IsSome(sharedDeviceSettings.value)
        /\ Val(peeked) = platformCheckForUpdates("left", sharedDeviceSettings.value)

\* C13: in every reachable state each polling cache, and the publish loop of
\* an accessory, has at most one live recurring timer, and its refresh handle
\* is null exactly when no timer of it is live (so a timer is started only on
\* a null handle, and going into standby cancels the timer).
C13_OneTimer ==
  /\ timersLive \in {0, 1}
  /\ refreshInterval = None <=> timersLive = 0
  /\ platformTimersLive \in {0, 1}
  /\ platformRefreshInterval = None <=> platformTimersLive = 0
  /\ pluginTimersLive \in {0, 1}
  /\ pluginRefreshInterval = None <=> pluginTimersLive = 0

\* C13 witness: a cache (or publish loop) that was brought back from standby
\* is polling again with one live timer, after activities that found the
\* timer already running.
C13_Witness ==
  /\ restarted
  /\ \/ /\ constructed = "accessory"
        /\ IsSome(refreshInterval) /\ timersLive = 1
        /\ sinceActive = 0 /\ refreshInterval # Some(Rho)
     \/ /\ constructed = "platform"
        /\ IsSome(platformRefreshInterval) /\ platformTimersLive = 1
        /\ platformSinceActive = 0 /\ platformRefreshInterval # Some(Rho)
     \/ /\ constructed = "thermostat"
        /\ IsSome(pluginRefreshInterval) /\ pluginTimersLive = 1
        /\ pluginSinceActive = 0 /\ IsSome(service)

\* a GET of the accessory cache comes back failed in this step
AccessoryFetchFails ==
  /\ constructed = "accessory"
  /\ \E i \in Slots :
       /\ currentUserSettings = Pending(i)
       /\ reqs[i].kind = "get" /\ reqs'[i] = FreeSlot
       /\ currentUserSettings' = Resolved(None)

\* a GET of the platform cache comes back failed in this step
PlatformFetchFails ==
  /\ constructed = "platform"
  /\ \E i \in Slots :
       /\ sharedDeviceSettings = Pending(i)
       /\ platformReqs[i].kind = "get" /\ platformReqs'[i] = FreeSlot
       /\ sharedDeviceSettings' = Resolved(None)

\* C14: a fetch that fails leaves the recurring timer of its cache as it
\* was, and the next tick of a cache that holds a failed fetch and was used
\* within tau issues a new fetch and leaves the timer running.
C14_FailedFetchKeepsTimer ==
  [][ /\ AccessoryFetchFails =>
           /\ refreshInterval' = refreshInterval
           /\ timersLive' = timersLive
      /\ PlatformFetchFails =>
           /\ platformRefreshInterval' = platformRefreshInterval
           /\ platformTimersLive' = platformTimersLive
      /\ ( /\ constructed = "accessory"
           /\ currentUserSettings = Resolved(None)
           /\ refreshInterval = Some(0) /\ refreshInterval' # refreshInterval
           /\ sinceActive <= Tau )
         => /\ IsPending(currentUserSettings')
            /\ reqs'[currentUserSettings'.pending] = NewGet
            /\ refreshInterval' = Some(Rho) /\ timersLive' = 1
      /\ ( /\ constructed = "platform"
           /\ sharedDeviceSettings = Resolved(None)
           /\ platformRefreshInterval = Some(0)
           /\ platformRefreshInterval' # platformRefreshInterval
           /\ platformSinceActive <= Tau )
         => /\ IsPending(sharedDeviceSettings')
            /\ platformReqs'[sharedDeviceSettings'.pending] = NewGet
            /\ platformRefreshInterval' = Some(Rho) /\ platformTimersLive' = 1
    ]_vars

\* C14 witness: the fetch a tick issued has failed (the constructor's fetch
\* had succeeded, and nothing but ticks has fetched since), the cache is
\* still in use and its timer is due for the next tick.
C14_Witness ==
  /\ constructed = "accessory"
  /\ currentUserSettings = Resolved(None)
  /\ IsSome(lastGood) /\ ~restarted /\ lastWrite = None
  /\ sinceActive <= Tau
  /\ refreshInterval = Some(0) /\ timersLive = 1

(***************************************************************************)
(*                      Properties of the start-up                         *)
(***************************************************************************)

\* C15 (as stated; the code departs from it): preparePrimaryUser leaves its
\* cache load either with the device of the cached user or on the way to the
\* profile fetch, whatever the cache file holds.
C15_UnusableCacheIsAMiss ==
  [][ (primaryUserDevice.stage = "load" /\ primaryUserDevice'.stage # "load")
        => \/ /\ primaryUserDevice'.stage = "done"
              /\ IsSome(primaryUserDevice'.value)
           \/ primaryUserDevice'.stage = "session"
    ]_vars

\* C16 (as stated; the code departs from it): when a call of prepareSession
\* returns the session its login obtained, the session cache file holds that
\* session.
C16_PersistedBeforeReturn ==
  [][ \A r \in Runs :
        ( /\ runs[r].stage = "login"
          /\ runs'[r].stage = "done"
          /\ IsSome(runs'[r].value) )
        => sessionFile' = runs'[r].value
    ]_vars

\* a discovery that has thrown: nothing was constructed or registered
DiscoveryFailed(d) ==
  /\ d.stage = "failed"
  /\ d.platformClient = None
  /\ d.accessories = <<>>
  /\ d.registered = {}

\* C17: when the session discoverDevices awaited turns out to be null the
\* discovery fails without constructing the platform adapter or any
\* accessory and without registering one, and a failed discovery stays as
\* it is whatever the connection does afterwards.
C17_NoSessionFailsFast ==
  [][ /\ ( /\ discovery.stage = "session"
           /\ discovery' # discovery
           /\ ~IsSome(runs[discovery.run].value) )
         => DiscoveryFailed(discovery')
      /\ DiscoveryFailed(discovery) => discovery' = discovery
    ]_vars

\* C17 witness: the discovery failed for want of a session, and a later
\* reauthentication has logged in.
C17_Witness ==
  /\ DiscoveryFailed(discovery)
  /\ ~IsSome(runs[discovery.run].value)
  /\ \E r \in Runs :
       /\ r > discovery.run
       /\ runs[r].stage = "done"
       /\ IsSome(runs[r].value)

\* C18: in every state of a platform whose configuration lacks the email
\* or the password there is no connection (no call of prepareSession or
\* preparePrimaryUser, no validation pending), no request has been sent and
\* no token set, no timer of an adapter or accessory is live, the discovery
\* has not run, and the configuration error has been logged at most once.
C18_NoCredentialsNoCore ==
  ~(config.email /\ config.password) =>
     /\ runs = <<>>
     /\ primaryUserDevice.stage = "absent"
     /\ \A r \in DOMAIN awaiting : awaiting[r] = 0
     /\ erasing = 0 /\ diskWrites = {}
     /\ loginRequests = 0 /\ headers = None /\ lastRequest = None
     /\ timersLive = 0 /\ platformTimersLive = 0 /\ pluginTimersLive = 0
     /\ discovery = NoDiscovery
     /\ constructed = "none"
     /\ configErrors <= 1

\* C18 witness: a platform constructed with an email and no password has
\* logged the error.
C18_Witness ==
  /\ config.email /\ ~config.password
  /\ configErrors = 1

\* the accessories a finished discovery has constructed that are the owner's
OwnersOf(d) == {k \in DOMAIN d.accessories : d.accessories[k].isOwner}

\* C19: a discovery that has run to its end has constructed one accessory,
\* of side solo, when the primary user's side is solo, and otherwise two, of
\* sides left and right; exactly one of them is the owner's, it is the one
\* of the primary user's side, and an accessory carries the userId of the
\* session exactly when it is the owner's, the other one carrying the guest
\* id of its side.
C19_AccessoriesAndOwner ==
  discovery.stage = "built" =>
    LET acc == discovery.accessories
        side == Val(primaryUserDevice.value).side
        id == Val(primaryUserDevice.value).id
    IN /\ IF side = "solo"
            THEN Len(acc) = 1 /\ acc[1].side = "solo"
            ELSE Len(acc) = 2 /\ acc[1].side = "left" /\ acc[2].side = "right"
       /\ Cardinality(OwnersOf(discovery)) = 1
       /\ \A k \in DOMAIN acc :
            /\ acc[k].isOwner <=> acc[k].side = side
            /\ acc[k].isOwner <=> acc[k].userId = Val(discovery.session).userId
            /\ ~acc[k].isOwner => acc[k].userId = guestId(id, acc[k].side)

\* C19 witness: the discovery of a bed whose right side is the primary
\* user's has constructed both accessories, one of them restored.
C19_Witness ==
  /\ discovery.stage = "built"
  /\ Len(discovery.accessories) = 2
  /\ discovery.accessories[2].isOwner
  /\ discovery.accessories[1].userId = "guest-pod-left"
  /\ discovery.registered = {"left"}

(***************************************************************************)
(*                Properties of the thermostat accessory                   *)
(***************************************************************************)

\* C11: the reconciler is total and decides as stated. Every publish pushes
\* an operating state, and it is OFF when the intent is off, whatever the
\* temperatures; with the intent on it is OFF (idle) when
\* |targetTemp - currentTemp| <= tolerance, as the subtraction and the
\* comparison of doubles give it, HEAT when currentTemp < targetTemp beyond
\* the tolerance, and COOL otherwise.
C11_Reconciler ==
  IsSome(service) =>
    LET p == Val(service)
        current == p.CurrentTemperature
        target == p.TargetTemperature
        both == IsSome(current) /\ IsSome(target)
        within == both /\ WithinTolerance(Val(target), Val(current))
    IN /\ p.CurrentHeatingCoolingState \in {"OFF", "HEAT", "COOL"}
       /\ p.TargetHeatingCoolingState = 0 => p.CurrentHeatingCoolingState = "OFF"
       /\ p.TargetHeatingCoolingState # 0 =>
            /\ within => p.CurrentHeatingCoolingState = "OFF"
            /\ (~within /\ both /\ Val(current) < Val(target))
                 => p.CurrentHeatingCoolingState = "HEAT"
            /\ (~within /\ ~(both /\ Val(current) < Val(target)))
                 => p.CurrentHeatingCoolingState = "COOL"

\* C11 witness: with the intent on, a target exactly the tolerance above the
\* current temperature was published as idle (OFF).
C11_Witness ==
  /\ IsSome(service)
  /\ Val(service).TargetHeatingCoolingState = 3
  /\ Val(service).CurrentTemperature = Some(3500)
  /\ Val(service).TargetTemperature = Some(3500 + Tolerance)
  /\ Val(service).CurrentHeatingCoolingState = "OFF"

(***************************************************************************)
(*                    Properties of the connection                         *)
(***************************************************************************)

C6_NoSecondLogin ==
  [][ (\E r \in Runs : /\ runs[r].stage = "done" /\ runs[r].logins = 1
                       /\ IsSome(runs[r].value))
        => loginRequests' = loginRequests ]_vars

\* C6 as amended: a session promise resolves once and every awaiter of it
\* (profile fetch, discovery, validation) receives the session it resolved
\* with, without sending a login request; a login request is sent only by a
\* run of prepareSession, once; and prepareSession runs again only in a
\* reauthentication, which a periodic validation starts exactly when the
\* session it awaited is null or within the safety margin.
C6_SessionShared ==
  [][ /\ \A r \in Runs : runs[r].stage = "done" => runs'[r] = runs[r]
      /\ loginRequests' # loginRequests
           => /\ loginRequests' = loginRequests + 1
              /\ \E r \in Runs : runs[r].stage = "load" /\ runs'[r].stage = "login"
      /\ Len(runs') # Len(runs)
           => /\ Len(runs') = Len(runs) + 1
              /\ erasing > 0 /\ erasing' = erasing - 1
      /\ \A r \in Runs :
           awaiting'[r] < awaiting[r]
             => /\ runs[r].stage = "done"
                /\ erasing' = erasing + 1
                     <=> \/ runs[r].value = None
                         \/ Val(runs[r].value).expirationDate <= now + Margin
                /\ erasing' # erasing + 1 => erasing' = erasing
      /\ erasing' > erasing => \E r \in Runs : awaiting'[r] < awaiting[r]
      /\ primaryUserDevice'.session # primaryUserDevice.session
           => /\ primaryUserDevice'.session = runs[primaryUserDevice.run].value
              /\ loginRequests' = loginRequests
      /\ discovery'.session # discovery.session
           => /\ discovery'.session = runs[discovery.run].value
              /\ loginRequests' = loginRequests ]_vars

\* C6 witness: the profile fetch and the discovery both received the session
\* of the first login; later a reauthentication logged in a second time and
\* the field `session` now holds the session of that second login.
C6_Witness ==
  /\ discovery.stage = "built"
  /\ IsSome(discovery.session)
  /\ primaryUserDevice.session = discovery.session
  /\ Val(discovery.session).token = 1
  /\ runs[1].logins = 1
  /\ session = 2 /\ runs[2].stage = "done" /\ IsSome(runs[2].value)
  /\ Val(runs[2].value).token = 2
  /\ loginRequests = 2

\* C7: no request of an adapter (GET or PUT on /users/{id}/temperature or
\* /devices/{id}) leaves while the promise the field `session` holds is
\* pending.
C7_NoRequestWhileSessionPending ==
  IsSome(lastRequest) => ~Val(lastRequest).pending

\* the PUT requests of the accessory adapter that are in flight
PutsInFlight(rs) == {i \in Slots : rs[i].kind = "put"}

\* C20: when the PUT of a set-target-temperature call completes, the
\* mismatch is logged exactly if the server answered and acknowledged a
\* level other than the one the call requested (so never when it echoes the
\* requested level); the completion, and the state update that follows it,
\* send no PUT.
C20_MismatchIffDifferentAck ==
  [][ /\ (setTarget.stage = "put" /\ setTarget'.stage = "state")
         => /\ IsSome(lastWrite')
            /\ Val(lastWrite').requested = Val(setTarget.targetLevel)
            /\ setTarget'.mismatch <=>
                 /\ IsSome(Val(lastWrite').response)
                 /\ Val(Val(lastWrite').response).currentLevel
                      # Val(setTarget.targetLevel)
            /\ PutsInFlight(reqs') = PutsInFlight(reqs) \ {setTarget.slot}
      /\ (setTarget.stage = "state" /\ setTarget'.stage = "done")
         => /\ setTarget'.mismatch = setTarget.mismatch
            /\ PutsInFlight(reqs') = PutsInFlight(reqs)
    ]_vars

\* C20 witness: the call asked for the level of 96 degrees Fahrenheit, the
\* server acknowledged another level of the same temperature, the mismatch
\* was logged and the call has run to its end.
C20_Witness ==
  /\ setTarget.stage = "done"
  /\ setTarget.targetLevel = Some(47)
  /\ setTarget.receivedLevel = Some(48)
  /\ levelToCelsius(47) = levelToCelsius(48)
  /\ setTarget.mismatch

\* C21: a periodic validation that finds the held session expiring beyond
\* the safety margin changes nothing (no login request, no cache write, the
\* runs of prepareSession, the cache file and the headers as they were); one
\* that finds it within the margin or expired starts a reauthentication,
\* which erases the cache and calls prepareSession once, and that call, with
\* the held session no longer valid, sends exactly one login request.
C21_ValidationOutcome ==
  [][ /\ \A r \in Runs :
           (awaiting'[r] < awaiting[r] /\ IsSome(runs[r].value))
             => /\ UNCHANGED <<runs, loginRequests, diskWrites, sessionFile, headers>>
                /\ IF Val(runs[r].value).expirationDate > now + Margin
                     THEN erasing' = erasing
                     ELSE erasing' = erasing + 1
      /\ (erasing' < erasing /\ runs[session].stage = "done"
            /\ IsSome(runs[session].value)
            /\ Val(runs[session].value).expirationDate <= now + Margin)
           => /\ erasing' = erasing - 1
              /\ runs' = Append(runs, NewRun)
              /\ sessionFile' \in {None, sessionFile}
              /\ UNCHANGED <<loginRequests, diskWrites, headers>>
      /\ \A r \in Runs :
           (r > 1 /\ runs[r].stage = "load" /\ runs'[r].stage # "load"
              /\ IsSome(runs[r - 1].value)
              /\ Val(runs[r - 1].value).expirationDate <= now + Margin)
             => /\ runs'[r].stage = "login" /\ runs'[r].logins = 1
                /\ loginRequests' = loginRequests + 1
      /\ \A r \in Runs : runs[r].logins <= 1 /\ runs'[r].logins >= runs[r].logins ]_vars

\* C21 witness: the first validation found the cached session the process
\* holds beyond the margin and changed nothing; the second found it within
\* the margin, and the reauthentication it started has sent its one login.
C21_Witness ==
  /\ Len(runs) = 2
  /\ runs[1].value = Some(Session(0, LongTtl)) /\ runs[1].logins = 0
  /\ now = LongTtl - Margin
  /\ runs[2].stage = "login" /\ runs[2].logins = 1
  /\ loginRequests = 1 /\ erasing = 0

\* C22 as stated: at no time are two login requests in flight.
C22_OneLoginInFlight ==
  Cardinality({r \in Runs : runs[r].stage = "login"}) <= 1

\* this step replaces the held user settings by a promise made in the step:
\* that of a GET that leaves in it, or the response of a PUT that completes
\* in it
AccessoryHeldRenewed ==
  \/ \E i \in Slots : /\ reqs[i].kind = "free" /\ reqs'[i] = NewGet
                      /\ currentUserSettings' = Pending(i)
  \/ \E i \in Slots : /\ reqs[i].kind = "put" /\ reqs'[i].kind # "put"
                      /\ ~IsPending(currentUserSettings')

\* this step resolves the held user settings with the response of the GET
\* they were made for
AccessoryHeldResolved ==
  \E i \in Slots : /\ currentUserSettings = Pending(i)
                   /\ reqs[i].kind = "get" /\ reqs'[i].kind = "free"
                   /\ ~IsPending(currentUserSettings')

\* this step replaces the held device settings by the promise of a GET that
\* leaves in it
PlatformHeldRenewed ==
  \E i \in Slots : /\ platformReqs[i].kind = "free" /\ platformReqs'[i] = NewGet
                   /\ sharedDeviceSettings' = Pending(i)

\* this step resolves the held device settings with the response of the GET
\* they were made for
PlatformHeldResolved ==
  \E i \in Slots : /\ sharedDeviceSettings = Pending(i)
                   /\ platformReqs[i].kind = "get" /\ platformReqs'[i].kind = "free"
                   /\ ~IsPending(sharedDeviceSettings')

\* C23: bounded staleness.  The promise a cache holds is never older than
\* the time its timer has run in the current period, which is at most Rho:
\* a read (getActive) leaves the timer running; a timer that starts, and
\* every tick, replaces the held promise by one made at that moment; the
\* timer counts down one step at a time and time does not pass a tick that
\* is due; between ticks the held promise changes only by resolving, or by
\* being replaced by the response of a write acknowledged at that moment.
C23_BoundedStaleness ==
  [][ /\ (constructed = "accessory" /\ sinceActive' = 0) => IsSome(refreshInterval')
      /\ (constructed = "platform" /\ platformSinceActive' = 0)
           => IsSome(platformRefreshInterval')
      /\ (refreshInterval \in {None, Some(0)} /\ refreshInterval' # refreshInterval)
           => AccessoryHeldRenewed
      /\ (platformRefreshInterval \in {None, Some(0)}
            /\ platformRefreshInterval' # platformRefreshInterval)
           => PlatformHeldRenewed
      /\ (refreshInterval \notin {None, Some(0)} /\ refreshInterval' # refreshInterval)
           => /\ refreshInterval' = Some(Val(refreshInterval) - 1)
              /\ Val(refreshInterval) <= Rho
              /\ sinceActive' = Later(sinceActive)
      /\ (platformRefreshInterval \notin {None, Some(0)}
            /\ platformRefreshInterval' # platformRefreshInterval)
           => /\ platformRefreshInterval' = Some(Val(platformRefreshInterval) - 1)
              /\ Val(platformRefreshInterval) <= Rho
              /\ platformSinceActive' = Later(platformSinceActive)
      /\ currentUserSettings' # currentUserSettings
           => AccessoryHeldRenewed \/ AccessoryHeldResolved
      /\ sharedDeviceSettings' # sharedDeviceSettings
           => PlatformHeldRenewed \/ PlatformHeldResolved ]_vars

\* C23 witness: a cache that had gone into standby was read again, and it
\* is read once more at the moment the next tick is due, the settings it
\* holds being those of a request made a full period earlier.
C23_Witness ==
  /\ constructed = "accessory"
  /\ restarted
  /\ refreshInterval = Some(0)
  /\ sinceActive = 0
  /\ ~IsPending(currentUserSettings) /\ IsSome(currentUserSettings.value)

(***************************************************************************)
(*                 Properties of the operating state                       *)
(***************************************************************************)

Lifecycle ==
  IF runs[session].stage = "load" THEN "NO_SESSION"
  ELSE IF runs[session].stage = "login" THEN "LOGIN_PENDING"
  ELSE IF IsSome(runs[session].value) THEN "ACTIVE"
  ELSE "LOGIN_FAILED"

\* C25 as stated: the lifecycle takes only the transitions NO_SESSION to
\* ACTIVE, NO_SESSION to LOGIN_PENDING, LOGIN_PENDING to ACTIVE or to
\* LOGIN_FAILED, and ACTIVE to LOGIN_PENDING (which the code takes through
\* the re-read of the cache, NO_SESSION).
C25_ListedTransitionsOnly ==
  [][ Lifecycle' # Lifecycle
        => <<Lifecycle, Lifecycle'>> \in
             {<<"NO_SESSION", "ACTIVE">>, <<"NO_SESSION", "LOGIN_PENDING">>,
              <<"LOGIN_PENDING", "ACTIVE">>, <<"LOGIN_PENDING", "LOGIN_FAILED">>,
              <<"ACTIVE", "LOGIN_PENDING">>, <<"ACTIVE", "NO_SESSION">>} ]_vars

\* C25 as amended: NO_SESSION goes to ACTIVE exactly on a cached session
\* that expires beyond the margin, and to LOGIN_PENDING otherwise;
\* LOGIN_PENDING goes to ACTIVE with a session that expires beyond the
\* margin, or to LOGIN_FAILED; and a reauthentication, which a periodic
\* validation has started, puts the lifecycle back to NO_SESSION from
\* whatever state it is in, LOGIN_FAILED included.  There is no other
\* transition.
C25_LifecycleTransitions ==
  [][ /\ Len(runs') = Len(runs)
           => LET r == session
              IN /\ Lifecycle = "NO_SESSION"
                      => \/ Lifecycle' = "NO_SESSION"
                         \/ /\ Lifecycle' = "ACTIVE"
                            /\ runs'[r].value = runs'[r].cached
                            /\ Val(runs'[r].cached).expirationDate > now + Margin
                         \/ /\ Lifecycle' = "LOGIN_PENDING"
                            /\ \/ runs'[r].cached = None
                               \/ Val(runs'[r].cached).expirationDate <= now + Margin
                 /\ Lifecycle = "LOGIN_PENDING"
                      => \/ Lifecycle' = "LOGIN_PENDING"
                         \/ /\ Lifecycle' = "ACTIVE"
                            /\ Val(runs'[r].value).expirationDate > now + Margin
                         \/ Lifecycle' = "LOGIN_FAILED"
                 /\ Lifecycle \in {"ACTIVE", "LOGIN_FAILED"} => Lifecycle' = Lifecycle
      /\ Len(runs') # Len(runs)
           => /\ Len(runs') = Len(runs) + 1
              /\ erasing > 0 /\ erasing' = erasing - 1
              /\ Lifecycle' = "NO_SESSION" ]_vars

\* C25 witness: the first login failed, a periodic validation found no
\* session and reauthenticated, and the second login brought a session.
C25_Witness ==
  /\ Len(runs) = 2
  /\ runs[1].stage = "done" /\ runs[1].logins = 1 /\ runs[1].value = None
  /\ runs[2].logins = 1
  /\ Lifecycle = "ACTIVE"

(***************************************************************************)
(*                   Properties of the device profile                      *)
(***************************************************************************)

\* how far preparePrimaryUser has come
ProfileRank(stage) ==
  CASE stage = "absent" -> 0
    [] stage = "load" -> 1
    [] stage = "session" -> 2
    [] stage = "fetch" -> 3
    [] stage = "done" -> 4

\* this step sends GET /users/me
UsersMeSent == primaryUserDevice.stage # "fetch" /\ primaryUserDevice'.stage = "fetch"

\* C26: the device profile is resolved at most once in a process.
\* preparePrimaryUser only moves forward, so GET /users/me is sent at most
\* once; once it has returned, its device (id and side) never changes,
\* whatever reauthentication follows, and the discovery builds its platform
\* adapter and accessories for that device.
C26_ProfileResolvedOnce ==
  [][ /\ ProfileRank(primaryUserDevice'.stage) >= ProfileRank(primaryUserDevice.stage)
      /\ UsersMeSent => primaryUserDevice.stage = "session"
      /\ primaryUserDevice.stage = "done" => primaryUserDevice' = primaryUserDevice
      /\ discovery'.stage = "built"
           => /\ primaryUserDevice'.stage = "done"
              /\ IsSome(primaryUserDevice'.value)
              /\ discovery'.platformClient = Some(Val(primaryUserDevice'.value).id)
              /\ \A k \in DOMAIN discovery'.accessories :
                   discovery'.accessories[k].sharedDeviceId
                     = Val(primaryUserDevice'.value).id ]_vars

\* C26 witness: the profile was fetched with the session of the first
\* login and the discovery built the accessories; later a reauthentication
\* logged in again, and the device is the one first resolved.
C26_Witness ==
  /\ primaryUserDevice.stage = "done"
  /\ primaryUserDevice.value = Some(CurrentDevice)
  /\ IsSome(primaryUserDevice.session) /\ Val(primaryUserDevice.session).token = 1
  /\ discovery.stage = "built"
  /\ Len(runs) = 2 /\ runs[2].stage = "done" /\ runs[2].logins = 1
  /\ IsSome(runs[2].value)

\* C27: GET /users/me is sent only once the session promise that
\* fetchPrimaryUser awaits has resolved with a session, and it is sent with
\* that session; when the promise resolves with null no request is sent and
\* preparePrimaryUser returns null; a cached profile with a device is
\* returned from the cache file, whatever the state of the session.
C27_FetchNeedsSession ==
  [][ /\ UsersMeSent
           => /\ primaryUserDevice.stage = "session"
              /\ runs[primaryUserDevice.run].stage = "done"
              /\ IsSome(runs[primaryUserDevice.run].value)
              /\ primaryUserDevice'.session = runs[primaryUserDevice.run].value
      /\ (primaryUserDevice.stage = "session" /\ primaryUserDevice'.stage # "session")
           => /\ runs[primaryUserDevice.run].stage = "done"
              /\ runs[primaryUserDevice.run].value = None
                   => /\ primaryUserDevice'.stage = "done"
                      /\ primaryUserDevice'.value = None
      /\ (primaryUserDevice.stage = "load" /\ primaryUserDevice'.stage # "load")
           => IF /\ IsSome(userFile) /\ IsSome(primaryUserDevice'.value)
                THEN /\ primaryUserDevice'.stage = "done"
                     /\ primaryUserDevice'.value = Val(userFile).currentDevice
                     /\ primaryUserDevice'.session = None
                ELSE primaryUserDevice'.value = None ]_vars

\* C27 witness: the login of the first prepareSession has returned a
\* session, and GET /users/me is in flight with it.
C27_Witness ==
  /\ primaryUserDevice.stage = "fetch"
  /\ primaryUserDevice.run = 1
  /\ runs[1].stage = "done" /\ runs[1].logins = 1
  /\ primaryUserDevice.session = runs[1].value /\ IsSome(runs[1].value)

\* C28: a login that fails, or that answers with a session that is
\* malformed or expires within the margin, gives the caller no session:
\* the promise of prepareSession resolves with a session only when the
\* session is well formed and expires beyond the margin, and when it
\* resolves with null after a login the headers, the cache file and the
\* writes in flight are as they were, and the run has written no session.
C28_FailedLoginLeavesNoTrace ==
  [][ \A r \in Runs :
        (runs[r].stage = "login" /\ runs'[r].stage # "login")
          => /\ runs'[r].stage = "done"
             /\ IF IsSome(runs'[r].value)
                  THEN /\ Val(runs'[r].value).userId # ""
                       /\ Val(runs'[r].value).expirationDate > now + Margin
                       /\ headers' = Some(Val(runs'[r].value).token)
                  ELSE /\ runs'[r].writes = 0
                       /\ UNCHANGED <<headers, diskWrites, sessionFile, loginRequests>>
                       /\ \A q \in Runs \ {r} : runs'[q] = runs[q] ]_vars

\* C28 witness: the process holds the headers of its cached session; the
\* login of a reauthentication has ended without a session, the headers
\* are those of the cached session still and no session was written.
C28_Witness ==
  /\ Len(runs) = 2
  /\ runs[1].value = Some(Session(0, LongTtl))
  /\ runs[2].stage = "done" /\ runs[2].logins = 1 /\ runs[2].value = None
  /\ runs[2].writes = 0
  /\ headers = Some(0)
  /\ diskWrites = {}

\* the accessory of side s starts to await a promise in this step
StartsAwaiting(s) == reading[s] = 0 /\ reading'[s] # 0

\* the call of side s returns in this step, resumed by the response it awaited
Resumed(s) == reading[s] # 0 /\ reading'[s] = 0

\* C29: the shared-device cache serves both sides from one request.  A GET
\* is issued only by a read in standby or by a due tick, and the read in
\* standby starts the timer, so that a second read before the response
\* issues none; a call that has to wait awaits the promise the adapter holds,
\* which only a new GET replaces; and when the GET resolves, every call that
\* awaits it returns its own side's level of that one response (0 for both
\* when it failed).
C29_OneRequestServesBothSides ==
  [][ /\ PlatformFetchIssued
           => /\ platformRefreshInterval \in {None, Some(0)}
              /\ platformRefreshInterval = None => platformRefreshInterval' = Some(Rho)
      /\ \A s \in BedSides :
           /\ (StartsAwaiting(s) /\ platformRefreshInterval # None) => ~PlatformFetchIssued
           /\ StartsAwaiting(s) => sharedDeviceSettings' = Pending(reading'[s])
           /\ (reading[s] = 0 /\ levelRead'[s] # levelRead[s] /\ reading'[s] = 0)
                => /\ ~PlatformFetchIssued
                   /\ ~IsPending(sharedDeviceSettings)
                   /\ levelRead'[s] =
                        Some(platformCheckForUpdates(s, sharedDeviceSettings.value).currentLevel)
           /\ Resumed(s)
                => /\ platformReqs[reading[s]].kind = "get"
                   /\ platformReqs'[reading[s]].kind = "free"
                   /\ \E result \in {None, Some(device)} :
                        \A t \in BedSides :
                          reading[t] = reading[s]
                            => /\ Resumed(t)
                               /\ levelRead'[t] =
                                    Some(platformCheckForUpdates(t, result).currentLevel)
      /\ (IsPending(sharedDeviceSettings') /\ sharedDeviceSettings' # sharedDeviceSettings)
           => PlatformFetchIssued
    ]_vars

\* after a restart from standby both sides await the one request in flight,
\* whose promise the adapter holds, and the two levels on the device differ
C29_Witness ==
  /\ constructed = "platform"
  /\ restarted
  /\ reading["left"] # 0
  /\ reading["right"] = reading["left"]
  /\ sharedDeviceSettings = Pending(reading["left"])
  /\ Cardinality({i \in Slots : platformReqs[i].kind = "get"}) = 1
  /\ platformSinceActive = 0
  /\ platformRefreshInterval = Some(Rho)
  /\ device.leftHeatingLevel # device.rightHeatingLevel

\* C30 as stated: with the intent on, the published operating state is idle
\* (the OFF value) exactly when the target level and the current level map
\* to the same temperature; the tolerance never gives idle for two levels
\* whose mapped temperatures differ.
C30_IdleIffSameTemperature ==
  (IsSome(service) /\ Val(service).TargetHeatingCoolingState # 0)
    => (Val(service).CurrentHeatingCoolingState = "OFF"
          <=> Val(service).TargetTemperature = Val(service).CurrentTemperature)

\* C31: a target temperature that has no level is rejected: the call sends
\* no PUT and leaves the held user settings, the activity stamp and the
\* timers of the polling cache as they were; a call that sends a PUT has a
\* level.
C31_NoLevelNoWrite ==
  [][ /\ (setTarget' # setTarget /\ setTarget'.stage = "rejected")
           => /\ setTarget'.targetLevel = celsiusToLevel(setTarget'.tempC)
              /\ ~Truthy(setTarget'.targetLevel)
              /\ UNCHANGED <<currentUserSettings, sinceActive, refreshInterval,
                             timersLive, reqs>>
      /\ (setTarget' # setTarget /\ setTarget'.stage = "put")
           => /\ Truthy(setTarget'.targetLevel)
              /\ reqs'[setTarget'.slot] = NewPut(Val(setTarget'.targetLevel))
    ]_vars

\* a temperature off the table was set after an acknowledged write and
\* rejected: nothing is in flight and the acknowledged settings are held
C31_Witness ==
  /\ setTarget.stage = "rejected"
  /\ setTarget.targetLevel = None
  /\ IsSome(lastWrite) /\ IsSome(Val(lastWrite).response)
  /\ currentUserSettings = Resolved(Val(lastWrite).response)
  /\ \A i \in Slots : reqs[i] = FreeSlot

\* C32 as stated: the Celsius path agrees with the Fahrenheit path; for
\* every level L, celsiusToLevel(levelToCelsius(L)) is
\* fahrenheitToLevel(levelToFahrenheit(L)).
C32_CelsiusPathAgrees ==
  (IsSome(asked) /\ Val(asked).op = "celsiusToLevel")
    => answer = fahrenheitToLevel(Val(levelToFahrenheit(Val(asked).arg)))

\* C33: a tick issues its fetch and then cancels the timer exactly when
\* the last activity is more than tau old, so the cancelling tick is the
\* first one later than t + tau and itself fetches; no fetch is issued more
\* than tau + rho after the last activity; and a cache left alone for
\* longer than tau goes idle unless an activity intervenes.
C33_CancelledOnFirstLateTick ==
  /\ [][ /\ (refreshInterval = Some(0) /\ refreshInterval' # Some(0))
              => /\ AccessoryFetchIssued
                 /\ (refreshInterval' = None) <=> (sinceActive > Tau)
                 /\ (refreshInterval' # None) => (refreshInterval' = Some(Rho))
         /\ (platformRefreshInterval = Some(0) /\ platformRefreshInterval' # Some(0))
              => /\ PlatformFetchIssued
                 /\ (platformRefreshInterval' = None) <=> (platformSinceActive > Tau)
                 /\ (platformRefreshInterval' # None)
                      => (platformRefreshInterval' = Some(Rho))
         /\ AccessoryFetchIssued => sinceActive' <= Tau + Rho
         /\ PlatformFetchIssued => platformSinceActive' <= Tau + Rho
        ]_vars
  /\ (constructed = "accessory" /\ sinceActive > Tau)
        ~> (refreshInterval = None \/ sinceActive = 0)
  /\ (constructed = "platform" /\ platformSinceActive > Tau)
        ~> (platformRefreshInterval = None \/ platformSinceActive = 0)

\* the tick that cancelled the timer has issued a fetch, which is still in
\* flight: the cache is idle, more than tau after the last activity
C33_Witness ==
  /\ constructed = "accessory"
  /\ refreshInterval = None
  /\ timersLive = 0
  /\ sinceActive > Tau /\ sinceActive <= Tau + Rho
  /\ IsPending(currentUserSettings)
  /\ reqs[currentUserSettings.pending] = NewGet

\* C34: when a PUT fails (Client.put returns null), the held user settings
\* keep the value they had before the write, so a read of the target level
\* returns afterwards what it returned before.
C34_FailedWriteLeavesSettings ==
  [][ \A i \in Slots :
        (/\ reqs[i].kind = "put" /\ reqs'[i] # reqs[i]
         /\ IsSome(lastWrite') /\ ~IsSome(Val(lastWrite').response)
         /\ ~IsPending(currentUserSettings))
        => /\ currentUserSettings' = currentUserSettings
           /\ ReadTargetLevel' = ReadTargetLevel ]_vars

\* the cache of the user settings between two refresh ticks: the fetch in
\* flight, the publish loop's checkForUpdates and local writes of the level
NextStale ==
  \/ StartPut
  \/ PutSucceeds
  \/ PutFails
  \/ GetSucceeds
  \/ GetFails
  \/ CheckForUpdates

\* the accessory adapter has just been constructed
InitStale ==
  /\ MapperUnbuilt
  /\ ConnectionAbsent
  /\ ThermostatAbsent
  /\ PlatformAbsent
  /\ PeekIdle
  /\ setTarget = NoSetTarget
  /\ Configured
  /\ restarted = FALSE
  /\ constructed = "accessory"
  /\ AccessoryConstructed

SpecStale == InitStale /\ [][NextStale]_vars

\* C35: after a write of the target level is acknowledged, checkForUpdates of
\* the publish tick never returns the result of a fetch that was started
\* before the acknowledgement: it does not start awaiting such a fetch, and a
\* tick that was already awaiting one does not receive its result.
C35_NoStalePushAfterAck ==
  [][ /\ (peeking = NoPeek /\ peeking' # NoPeek /\ peeking'.side = "none")
           => ~reqs[peeking'.slot].beforeAck
      /\ (peeking # NoPeek /\ peeking.side = "none" /\ peeking' = NoPeek)
           => ~reqs[peeking.slot].beforeAck ]_vars

\* C36: on the login path the erase of the stale cache and the write of the
\* fresh session are both in flight unawaited; the erase never lands on the
\* file after the fresh session of the same prepareSession has been written
\* to it, so the file ends up holding the fresh session.
C36_EraseNeverLandsLast ==
  [][ (/\ None \in diskWrites
       /\ diskWrites' = diskWrites \ {None}
       /\ IsSome(sessionFile)
       /\ sessionFile' = None)
      => ~\E r \in Runs :
            /\ runs[r].erases = 1
            /\ runs[r].writes = 1
            /\ Val(sessionFile).token = r
            /\ \A q \in Runs : q > r => runs[q].erases = 0 ]_vars

\* C37: the two read paths agree: for every resolved value the cache holds,
\* the empty one included, the on/off intent read through getAccessoryIsOn
\* and the level read through getUserTargetLevel are the targetState and
\* the targetLevel checkForUpdates returns.
C37_ReadPathsAgree ==
  (constructed \in {"accessory", "both"} /\ ~IsPending(currentUserSettings)) =>
    LET settings == currentUserSettings.value
    IN /\ fetchTargetState(settings) = checkForUpdates(settings).targetState
       /\ LevelOf(settings) = checkForUpdates(settings).targetLevel

\* C38: the inverse map never yields level 0, so the guard of
\* updateTargetTemperature never rejects a temperature the tables hold: for
\* every level L, setting the target to levelToCelsius(L) sends a PUT
\* carrying celsiusToLevel(levelToCelsius(L)).
C38_RepresentableNeverRejected ==
  [][ \A L \in MinLevel .. MaxLevel :
        (/\ setTarget' # setTarget
         /\ setTarget'.stage \in {"put", "rejected"}
         /\ IsSome(levelToCelsius(L))
         /\ setTarget'.tempC = PerHundredth * Val(levelToCelsius(L)))
        => /\ celsiusToLevel(setTarget'.tempC) # Some(0)
           /\ setTarget'.stage = "put"
           /\ setTarget'.targetLevel = celsiusToLevel(setTarget'.tempC)
           /\ reqs'[setTarget'.slot] = NewPut(Val(setTarget'.targetLevel)) ]_vars

\* C39: the safety margin exceeds the validation period: a session a periodic
\* validation judges valid at time t has not reached its expiry one period
\* later, and whenever the validation timer fires, a session the field
\* `session` has resolved with has not reached its expiry.
C39_ValidUntilNextValidation ==
  [][ /\ \A r \in Runs :
           (awaiting'[r] < awaiting[r] /\ erasing' = erasing)
             => /\ IsSome(runs[r].value)
                /\ Val(runs[r].value).expirationDate > now + 1
      /\ (now' = now + 1 /\ runs[session].stage = "done" /\ IsSome(runs[session].value))
           => Val(runs[session].value).expirationDate > now' ]_vars

\* C39 witness: the session obtained at time 0 passed the validation of the
\* first period, and the timer has fired again at time 2 with the session
\* short of its expiry.
C39_Witness ==
  /\ now = 2
  /\ Len(runs) = 1
  /\ runs[1].stage = "done"
  /\ IsSome(runs[1].value)
  /\ Val(runs[1].value).expirationDate > now
  /\ awaiting[1] = 1
  /\ erasing = 0

\* the platform has constructed its connection; no user is cached.  The
\* validation timer keeps firing, a continuation of a resolved promise runs,
\* a writeFile completes or fails, and POST /login is answered or rejected
InitRetry ==
  /\ MapperUnbuilt
  /\ AccessoryAbsent
  /\ PlatformAbsent
  /\ ThermostatAbsent
  /\ PeekIdle
  /\ setTarget = NoSetTarget
  /\ Configured
  /\ ConnectionConstructed
  /\ userFile = None
  /\ constructed = "none"
  /\ restarted = FALSE

SpecRetry ==
  /\ InitRetry
  /\ [][NextValidation]_vars
  /\ WF_vars(PreserveConnectionTick)
  /\ WF_vars(ValidateActiveSession)
  /\ WF_vars(Reauthenticate)
  /\ WF_vars(LoadCachedSession)
  /\ WF_vars(DiskWriteLands \/ DiskWriteFails)
  /\ WF_vars(LoginResponds \/ LoginFails)

\* the login of the latest prepareSession, the n-th, failed and the field
\* `session` has resolved with null; the validation timer has a tick left
LoginFailed(n) ==
  /\ Len(runs) = n
  /\ runs[n].stage = "done"
  /\ runs[n].logins = 1
  /\ ~IsSome(runs[n].value)
  /\ now < MaxTime

\* a prepareSession later than the n-th has sent its login request or has
\* returned a cached session
Retried(n) == Len(runs) > n /\ runs[n + 1].stage # "load"

\* C40: a failed login is not terminal: every validation that finds the
\* session null starts a reauthentication, a reauthentication calls
\* prepareSession again, so after a failed login a later prepareSession
\* proceeds; and when a login succeeds, the session is the value of its
\* promise and the credential headers are set from it.
C40_LoginFailureNotTerminal ==
  /\ [][ /\ \A r \in Runs :
              (awaiting'[r] < awaiting[r] /\ ~IsSome(runs[r].value))
                => erasing' = erasing + 1
         /\ erasing' < erasing => runs' = Append(runs, NewRun)
         /\ \A r \in Runs :
              (runs[r].stage = "login" /\ runs'[r].stage = "done"
                 /\ IsSome(runs'[r].value))
                => headers' = Some(Val(runs'[r].value).token) ]_vars
  /\ \A n \in 1 .. (MaxRuns - 1) : LoginFailed(n) ~> Retried(n)

\* C40 witness: the first login failed, a validation reauthenticated, and the
\* login of the second prepareSession succeeded: the field `session` holds
\* its session and the headers carry its token.
C40_Witness ==
  /\ Len(runs) = 2
  /\ runs[1].stage = "done" /\ runs[1].logins = 1 /\ ~IsSome(runs[1].value)
  /\ runs[2].stage = "done" /\ runs[2].logins = 1 /\ IsSome(runs[2].value)
  /\ headers = Some(Val(runs[2].value).token)
  /\ Val(runs[2].value).token = 2

====
